---- MODULE Spec2Model ----
(***************************************************************************)
(* Brand-in-a-Box: the /api/generate request handler and its pure helpers. *)
(*                                                                         *)
(* The repository holds two snapshots of the handler that carry the        *)
(* Composer and the quality check:                                         *)
(*   - src/app/api/generate/route.ts, lines 1..611  (suffix R below)       *)
(*   - src/unnamed/part_001                          (plain names below)   *)
(* Both are modelled; the variable `snapshot` says which one serves the    *)
(* request.                                                                *)
(*                                                                         *)
(* Text is modelled by TLA+ strings, character by character.  The three    *)
(* non-ASCII characters of the source are written in ASCII:                *)
(*   em dash -> "~",   bullet -> "*",   ellipsis -> "_"                    *)
(***************************************************************************)
EXTENDS Integers, Sequences, FiniteSets, TLC

(***************************************************************************)
(* JavaScript string primitives                                            *)
(***************************************************************************)
\* With(a, F) is F(a), with a evaluated once, before F
With(a, F(_)) == CHOOSE r \in { F(v) : v \in {a} } : TRUE

UpperChars == "ABCDEFGHIJKLMNOPQRSTUVWXYZ"
LowerChars == "abcdefghijklmnopqrstuvwxyz"
DigitChars == "0123456789"
\* printable ASCII: codes 32..95 and 97..126 (the backquote, 96, is left out)
AsciiLowChars == " !\"#$%&'()*+,-./0123456789:;<=>?@ABCDEFGHIJKLMNOPQRSTUVWXYZ[\\]^_"
AsciiHighChars == "abcdefghijklmnopqrstuvwxyz{|}~"

\* s.slice(i - 1, j): the characters i..j that exist
Sub(s, i, j) ==
  With(<<s, i, j>>, LAMBDA t :
    LET lo == IF t[2] < 1 THEN 1 ELSE t[2]
        hi == IF t[3] > Len(t[1]) THEN Len(t[1]) ELSE t[3]
    IN IF lo > hi THEN "" ELSE SubSeq(t[1], lo, hi))

\* s[i - 1] as a string, "" outside the string
CharAt(s, i) == Sub(s, i, i)

IndexIn(c, table) ==
  With(c, LAMBDA ch :
    IF \E i \in 1..Len(table) : CharAt(table, i) = ch
    THEN CHOOSE i \in 1..Len(table) : CharAt(table, i) = ch
    ELSE 0)

\* String.prototype.charCodeAt for the characters of the model
charCodeAt(s, i) ==
  With(CharAt(s, i), LAMBDA c :
    IF c = "\n" THEN 10
    ELSE With(IndexIn(c, AsciiHighChars), LAMBDA hi :
           IF hi > 0 THEN 96 + hi ELSE 31 + IndexIn(c, AsciiLowChars)))

IsSpace(c) == c = " " \/ c = "\n" \/ c = "\t"
IsLowerAlnum(c) == IndexIn(c, LowerChars) > 0 \/ IndexIn(c, DigitChars) > 0

LowerChar(c) ==
  With(c, LAMBDA ch :
    With(IndexIn(ch, UpperChars), LAMBDA i : IF i > 0 THEN CharAt(LowerChars, i) ELSE ch))
UpperChar(c) ==
  With(c, LAMBDA ch :
    With(IndexIn(ch, LowerChars), LAMBDA i : IF i > 0 THEN CharAt(UpperChars, i) ELSE ch))

MapChar(c, kind) ==
  With(c, LAMBDA ch :
    CASE kind = "lower" -> LowerChar(ch)
      [] kind = "alnum" -> IF IsLowerAlnum(ch) THEN ch ELSE ""
      [] kind = "slug"  -> IF IsLowerAlnum(ch) \/ IsSpace(ch) THEN ch ELSE " ")

RECURSIVE MapRange(_, _, _, _)
\* the characters lo..hi of s, each mapped; halves the range to keep the
\* evaluation shallow
MapRange(s, kind, lo, hi) ==
  IF lo > hi THEN ""
  ELSE IF lo = hi THEN MapChar(CharAt(s, lo), kind)
  ELSE With((lo + hi) \div 2, LAMBDA mid :
         MapRange(s, kind, lo, mid) \o MapRange(s, kind, mid + 1, hi))

\* kind "lower": toLowerCase; "alnum": replace(/[^a-z0-9]/g, "");
\* "slug": replace(/[^a-z0-9\s]/g, " ")
MapChars(s, kind) == With(s, LAMBDA str : MapRange(str, kind, 1, Len(str)))

toLowerCase(s) == MapChars(s, "lower")
stripNonAlnum(s) == MapChars(s, "alnum")

startsWith(s, p) ==
  With(<<s, p>>, LAMBDA t : Len(t[2]) <= Len(t[1]) /\ SubSeq(t[1], 1, Len(t[2])) = t[2])

includes(s, sub) ==
  With(<<s, sub>>, LAMBDA t :
    \E i \in 1..(Len(t[1]) - Len(t[2]) + 1) : SubSeq(t[1], i, i + Len(t[2]) - 1) = t[2])

RECURSIVE trimStart(_)
trimStart(s) ==
  With(s, LAMBDA str :
    IF Len(str) > 0 /\ IsSpace(CharAt(str, 1)) THEN trimStart(Tail(str)) ELSE str)
RECURSIVE trimEnd(_)
trimEnd(s) ==
  With(s, LAMBDA str :
    IF Len(str) > 0 /\ IsSpace(CharAt(str, Len(str)))
    THEN trimEnd(SubSeq(str, 1, Len(str) - 1)) ELSE str)
trim(s) == trimEnd(trimStart(s))

\* cls "ws": the class \s;  cls "commaSpace": the class [, ]
IsSep(c, cls) == IF cls = "ws" THEN IsSpace(c) ELSE c = "," \/ c = " "
SepAt(s, i, cls) == IsSep(CharAt(s, i), cls)
SpaceAt(s, i) == SepAt(s, i, "ws")
PieceStarts(s, cls) ==
  With(s, LAMBDA str :
    { i \in 1..Len(str) : ~SepAt(str, i, cls) /\ (i = 1 \/ SepAt(str, i - 1, cls)) })
PieceEnd(s, i, cls) ==
  With(<<s, i>>, LAMBDA t :
    CHOOSE j \in t[2]..Len(t[1]) :
      /\ (j = Len(t[1]) \/ SepAt(t[1], j + 1, cls))
      /\ \A k \in t[2]..j : ~SepAt(t[1], k, cls))
\* the maximal runs of non-separator characters of s, in order
PiecesOf(s, cls) ==
  With(s, LAMBDA str :
    With(PieceStarts(str, cls), LAMBDA starts :
      [ n \in 1..Cardinality(starts) |->
          With(CHOOSE i \in starts : Cardinality({ j \in starts : j < i }) = n - 1,
               LAMBDA i : SubSeq(str, i, PieceEnd(str, i, cls))) ]))

\* s.split(/<cls>+/): a maximal run of separators separates two entries; a
\* separator at either end yields an empty entry there, and "" yields [""]
splitOn(s, cls) ==
  With(s, LAMBDA str :
    IF Len(str) = 0 THEN <<"">>
    ELSE (IF SepAt(str, 1, cls) THEN <<"">> ELSE <<>>)
         \o PiecesOf(str, cls)
         \o (IF SepAt(str, Len(str), cls) THEN <<"">> ELSE <<>>))
splitWs(s) == splitOn(s, "ws")

RECURSIVE JoinRange(_, _, _, _)
JoinRange(parts, sep, lo, hi) ==
  IF lo > hi THEN ""
  ELSE IF lo = hi THEN parts[lo]
  ELSE With((lo + hi) \div 2, LAMBDA mid :
         JoinRange(parts, sep, lo, mid) \o sep \o JoinRange(parts, sep, mid + 1, hi))

\* Array.prototype.join
join(parts, sep) == With(<<parts, sep>>, LAMBDA t : JoinRange(t[1], t[2], 1, Len(t[1])))

\* Array.prototype.slice(0, n)
slice0(seq, n) ==
  With(<<seq, n>>, LAMBDA t : SubSeq(t[1], 1, IF Len(t[1]) < t[2] THEN Len(t[1]) ELSE t[2]))

\* Array.prototype.filter(Boolean) on strings
filterNonEmpty(seq) == SelectSeq(seq, LAMBDA x : x /= "")

RECURSIVE dedupe(_, _)
\* Array.from(new Set(seq)): first occurrences, in insertion order
dedupe(seq, seen) ==
  With(<<seq, seen>>, LAMBDA t :
    IF Len(t[1]) = 0 THEN <<>>
    ELSE IF Head(t[1]) \in t[2] THEN dedupe(Tail(t[1]), t[2])
    ELSE <<Head(t[1])>> \o dedupe(Tail(t[1]), t[2] \cup {Head(t[1])}))
uniq(seq) == dedupe(seq, {})

(***************************************************************************)
(* Small utilities                                                         *)
(***************************************************************************)
\* src/unnamed/part_001: s.trim().split(/\s+/).slice(0, max).join(" ")
\* a clampWords that cuts nothing
clampWordsUncut(s, max) == trim(s)

clampWords(s, max) == join(slice0(splitWs(trim(s)), max), " ")
\* route.ts: s.split(/\s+/).slice(0, maxWords).join(" ").trim()
clampWordsR(s, maxWords) == trim(join(slice0(splitWs(s), maxWords), " "))

orBrand(t) == With(t, LAMBDA str : IF str = "" THEN "brand" ELSE str)
firstWordTag(s) == orBrand(stripNonAlnum(toLowerCase(splitWs(trim(s))[1])))
firstWordTagR(s) == orBrand(stripNonAlnum(toLowerCase(splitWs(s)[1])))

slugParts(s) == filterNonEmpty(splitWs(MapChars(toLowerCase(s), "slug")))

\* the keyword lists of categoryTag and of normCat, in the order they are tested
CategoryKeywords ==
  << <<"beverage", <<"beverage", "drink", "coffee", "tea", "brew">> >>,
     <<"skincare", <<"skincare", "skin", "beauty", "serum", "cream">> >>,
     <<"apparel",  <<"apparel", "fashion", "clothing", "wear">> >>,
     <<"gadget",   <<"gadget", "tech", "device", "electronics">> >>,
     <<"pet",      <<"pet">> >>,
     <<"home",     <<"home">> >>,
     <<"food",     <<"food", "snack", "granola", "protein">> >> >>

RECURSIVE matchCategory(_, _, _)
matchCategory(c, i, default) ==
  IF i > Len(CategoryKeywords) THEN default
  ELSE With(c, LAMBDA low :
         IF \E k \in 1..Len(CategoryKeywords[i][2]) : includes(low, CategoryKeywords[i][2][k])
         THEN CategoryKeywords[i][1]
         ELSE matchCategory(low, i + 1, default))

normCat(category) == matchCategory(toLowerCase(category), 1, "other")
categoryTag(cat) == "#" \o matchCategory(toLowerCase(cat), 1, "brand")

(***************************************************************************)
(* hashString: 32-bit FNV-1a.  A 32-bit word is the pair <<hi, lo>> of its *)
(* 16-bit halves, so that no intermediate value leaves the 32-bit integers *)
(***************************************************************************)
Half == 65536
FnvOffsetHi == 33052
FnvOffsetLo == 40389
FnvPrimeLow == 403

RECURSIVE Xor(_, _)
Xor(a, b) ==
  With(<<a, b>>, LAMBDA t :
    IF t[1] = 0 THEN t[2]
    ELSE IF t[2] = 0 THEN t[1]
    ELSE (((t[1] % 2) + (t[2] % 2)) % 2) + 2 * Xor(t[1] \div 2, t[2] \div 2))

\* Math.imul(h, 16777619), 16777619 = 2^24 + 403, as an unsigned 32-bit word
imulPrime(h) ==
  With(h, LAMBDA w :
    With(w[2] * FnvPrimeLow, LAMBDA p :
      << (w[1] * FnvPrimeLow + (p \div Half) + (w[2] % 256) * 256) % Half, p % Half >>))

RECURSIVE hashRange(_, _, _, _)
\* the loop over the indices lo..hi, started with h; the loop body is
\* h ^= s.charCodeAt(i); h = Math.imul(h, 16777619)
hashRange(s, lo, hi, h) ==
  IF lo > hi THEN h
  ELSE IF lo = hi THEN With(h, LAMBDA w : imulPrime(<<w[1], Xor(w[2], charCodeAt(s, lo))>>))
  ELSE With((lo + hi) \div 2, LAMBDA mid :
         With(hashRange(s, lo, mid, h), LAMBDA w : hashRange(s, mid + 1, hi, w)))

\* a hash whose accumulator starts at 0
hashStringNoOffset(s) ==
  With(s, LAMBDA str : hashRange(str, 1, Len(str), <<0, 0>>))

hashString(s) ==
  With(s, LAMBDA str : hashRange(str, 1, Len(str), <<FnvOffsetHi, FnvOffsetLo>>))

\* (seed + salt) % n, seed = hi * 2^16 + lo
seedMod(seed, salt, n) ==
  With(<<seed, n>>, LAMBDA t : ((t[1][1] % t[2]) * (Half % t[2]) + t[1][2] + salt) % t[2])

\* a pick that leaves the salt out
pickUnsalted(arr, seed, salt) == arr[seedMod(seed, 0, Len(arr)) + 1]

pick(arr, seed, salt) == arr[seedMod(seed, salt, Len(arr)) + 1]

(***************************************************************************)
(* The deterministic Composer (src/unnamed/part_001)                       *)
(***************************************************************************)
orElse(s, default) == With(s, LAMBDA str : IF str = "" THEN default ELSE str)

toneWords ==
  [ friendly |-> <<"friendly", "easy", "everyday", "feel-good", "simple", "welcoming">>,
    playful  |-> <<"playful", "cheeky", "fun", "vibrant", "lively", "bright">>,
    luxury   |-> <<"luxury", "elegant", "refined", "premium", "polished", "sleek">>,
    bold     |-> <<"bold", "striking", "confident", "punchy", "dynamic", "powerful">>,
    calm     |-> <<"calm", "soft", "clean", "minimal", "subtle", "gentle">> ]
verbs == <<"Discover", "Try", "Meet", "Enjoy", "Upgrade to", "Experience", "Unwrap", "Level up with">>
closers == <<"made for you", "built for daily life", "crafted with care", "designed to delight", "with zero fuss", "ready when you are">>
useCases == <<"everyday use", "busy mornings", "weekend plans", "work & play", "on-the-go moments", "your routine">>
catBits ==
  [ beverage |-> <<"refreshment", "flavor", "sips", "energy", "cool down", "brew">>,
    skincare |-> <<"glow", "hydration", "smoothness", "care", "routine", "radiance">>,
    apparel  |-> <<"comfort", "style", "fit", "layers", "everyday wear", "outfits">>,
    gadget   |-> <<"smarts", "power", "control", "speed", "simplicity", "connectivity">>,
    pet      |-> <<"tail wags", "purrs", "treat time", "cleanups", "happy bowls", "walks">>,
    home     |-> <<"coziness", "ease", "tidy spaces", "warmth", "every corner", "home life">>,
    food     |-> <<"flavor", "crunch", "protein", "snack time", "goodness", "bites">>,
    other    |-> <<"quality", "value", "joy", "fresh starts", "daily wins", "ease">> ]

\* toneWords[toneKey] || toneWords["friendly"]
tonesOf(table, tone) ==
  With(toLowerCase(orElse(tone, "friendly")), LAMBDA toneKey :
    IF toneKey \in DOMAIN table THEN table[toneKey] ELSE table["friendly"])

\* w[0]?.toUpperCase() + w.slice(1)
capitalize(w) ==
  With(w, LAMBDA str : UpperChar(CharAt(str, 1)) \o SubSeq(str, 2, Len(str)))
pEmphOf(product) ==
  With(slice0(slugParts(product), 2), LAMBDA two :
    join([ i \in 1..Len(two) |-> capitalize(two[i]) ], " "))

TaglineWords == 8
CaptionWords == 24

composeFallbackCopy(product, category, keyBenefit, audience, tone, platform) ==
  With(<< hashString(join(<<product, category, keyBenefit, audience, tone, platform>>, "|")),
          normCat(category), tonesOf(toneWords, tone), clampWords(product, 4),
          pEmphOf(product) >>, LAMBDA t :
    LET seed      == t[1]
        nc        == t[2]
        tones     == t[3]
        pShort    == t[4]
        pEmph     == t[5]
        t1        == pick(tones, seed, 1)
        t2        == pick(tones, seed, 2)
        vb        == pick(verbs, seed, 3)
        c1        == pick(closers, seed, 4)
        uc        == pick(useCases, seed, 5)
        catPhrase == pick(catBits[nc], seed, 6)
    IN With(orElse(trim(keyBenefit), pick(catBits[nc], seed, 7)), LAMBDA benefit :
      LET templates ==
            << [ tagline |-> clampWords(pShort \o ": " \o t1 \o " " \o benefit, TaglineWords),
                 caption |-> clampWords(vb \o " " \o pShort \o " ~ " \o t2 \o " " \o benefit
                                          \o ", " \o c1 \o ".", CaptionWords),
                 desc    |-> pShort \o " brings " \o benefit \o " with a " \o t1 \o ", " \o t2
                               \o " feel. Perfect for " \o orElse(audience, "everyone")
                               \o " on " \o orElse(platform, "social") \o "." ],
               [ tagline |-> clampWords(pEmph \o " * " \o benefit \o " "
                                          \o (IF nc /= "other" THEN "for " \o nc ELSE ""),
                                        TaglineWords),
                 caption |-> clampWords(vb \o " " \o pShort \o " and feel the " \o catPhrase
                                          \o ". Built for " \o uc \o ".", CaptionWords),
                 desc    |-> "Made to deliver " \o benefit \o " without the guesswork. " \o pShort
                               \o " fits right into " \o orElse(audience, "your") \o " routine." ],
               [ tagline |-> clampWords(pShort \o ": " \o catPhrase \o ", " \o benefit, TaglineWords),
                 caption |-> clampWords(vb \o " the " \o t1 \o " choice ~ " \o pShort \o " keeps "
                                          \o uc \o " simple.", CaptionWords),
                 desc    |-> pShort \o " focuses on " \o benefit \o ". A " \o t2
                               \o " touch that works across "
                               \o orElse(platform, "every platform") \o "." ] >>
          tags ==
            uniq(<< "#" \o firstWordTag(product),
                    toLowerCase(categoryTag(category)),
                    "#" \o stripNonAlnum(toLowerCase(orElse(benefit, catPhrase))),
                    "#new",
                    "#daily" >>)
      IN With(templates[seedMod(seed, 0, 3) + 1], LAMBDA pickT :
           [ tagline          |-> pickT.tagline,
             caption          |-> pickT.caption,
             shortDescription |-> pickT.desc,
             hashtags         |-> slice0(tags, 5) ])))

(***************************************************************************)
(* The Composer of src/app/api/generate/route.ts                           *)
(***************************************************************************)
adjTone ==
  [ friendly |-> <<"friendly", "easy", "everyday", "feel-good", "simple">>,
    playful  |-> <<"playful", "cheeky", "fun", "vibrant", "lively">>,
    luxury   |-> <<"luxury", "elegant", "refined", "premium", "polished">>,
    bold     |-> <<"bold", "striking", "confident", "punchy", "dynamic">>,
    calm     |-> <<"calm", "soft", "clean", "minimal", "subtle">> ]
verbsR == <<"Discover", "Try", "Meet", "Enjoy", "Upgrade to", "Say hello to", "Treat yourself to">>
closersR == <<"made for you", "built for daily life", "crafted with care", "designed to delight", "with zero fuss">>
catPhrases ==
  [ beverage |-> <<"refreshment", "flavor", "sips", "energy", "cool down">>,
    skincare |-> <<"glow", "hydration", "smoothness", "care", "routine">>,
    apparel  |-> <<"comfort", "style", "fit", "layers", "everyday wear">>,
    gadget   |-> <<"smarts", "power", "control", "speed", "simplicity">>,
    pet      |-> <<"tail wags", "purrs", "happy bowls", "cleanups", "treat time">>,
    home     |-> <<"coziness", "ease", "tidy spaces", "warmth", "every corner">>,
    food     |-> <<"flavor", "crunch", "protein", "snack time", "goodness">>,
    other    |-> <<"quality", "value", "joy", "fresh starts", "daily wins">> ]

CaptionWordsR == 22

composeFallbackCopyR(product, category, keyBenefit, audience, tone, platform) ==
  With(<< hashString(join(<<product, category, keyBenefit, audience, tone, platform>>, "|")),
          normCat(category), tonesOf(adjTone, tone), clampWordsR(product, 4) >>, LAMBDA t :
    LET seed      == t[1]
        nc        == t[2]
        tones     == t[3]
        pWord     == t[4]
        t1        == pick(tones, seed, 1)
        t2        == pick(tones, seed, 2)
        vb        == pick(verbsR, seed, 3)
        c1        == pick(closersR, seed, 4)
        catPhrase == pick(catPhrases[nc], seed, 5)
    IN With(orElse(trim(keyBenefit), pick(catPhrases[nc], seed, 7)), LAMBDA benefit :
         [ tagline          |-> clampWordsR(pWord \o ": " \o t1 \o " " \o benefit, TaglineWords),
           caption          |-> clampWordsR(vb \o " " \o pWord \o " ~ " \o t2 \o " " \o benefit
                                              \o ", " \o c1 \o ".", CaptionWordsR),
           shortDescription |-> pWord \o " brings " \o benefit \o " with a " \o t1 \o ", " \o t2
                                  \o " feel. Perfect for " \o orElse(audience, "everyday use")
                                  \o " on " \o orElse(platform, "social") \o ".",
           hashtags         |-> << "#" \o firstWordTagR(product),
                                   toLowerCase(categoryTag(category)),
                                   "#" \o stripNonAlnum(toLowerCase(orElse(benefit, catPhrase))),
                                   "#new",
                                   "#daily" >> ]))

(***************************************************************************)
(* Parsing of provider output.                                             *)
(*                                                                         *)
(* A provider's content is a record [text, json].  When a {...} block of   *)
(* the content parses as JSON, `json` is the parsed value; otherwise       *)
(* `json` is NoJson and `text` is the content, character by character.     *)
(* JSON values are tagged: [t |-> "str", s], [t |-> "num"],                *)
(* [t |-> "arr", a], [t |-> "obj", o], [t |-> "null"].                     *)
(***************************************************************************)
JNull == [t |-> "null"]
JStr(str) == [t |-> "str", s |-> str]
JNum == [t |-> "num"]
JArr(items) == [t |-> "arr", a |-> items]
JObj(fields) == [t |-> "obj", o |-> fields]
NoJson == [t |-> "none"]

\* a content string that is one JSON document / that holds no JSON
JsonContent(fields) == [text |-> "", json |-> JObj(fields)]
TextContent(str) == [text |-> str, json |-> NoJson]
EmptyContent == TextContent("")
IsEmptyContent(raw) == raw.text = "" /\ raw.json = NoJson
\* the content is exactly "{}"
IsEmptyObject(raw) == raw.text = "" /\ raw.json = JObj(<<>>)

extractJsonFromText(raw) == IF raw.json = NoJson THEN JNull ELSE raw.json

WordChars == "ABCDEFGHIJKLMNOPQRSTUVWXYZabcdefghijklmnopqrstuvwxyz0123456789_"

\* the first index at or after i that holds no white space (Len + 1 if none)
skipWs(s, i) ==
  With(<<s, i>>, LAMBDA t :
    CHOOSE j \in t[2]..(Len(t[1]) + 1) :
      /\ (j = Len(t[1]) + 1 \/ ~SpaceAt(t[1], j))
      /\ \A k \in t[2]..(j - 1) : SpaceAt(t[1], k))

\* where the key pattern ends when it matches the lower-cased text at i, else 0;
\* key "short description" stands for short\s*description, "hashtag" for hashtags?
keyEnd(low, key, i) ==
  LET at(w, j) == Sub(low, j, j + Len(w) - 1) = w
  IN CASE key = "short description" ->
            IF at("short", i) /\ at("description", skipWs(low, i + 5))
            THEN skipWs(low, i + 5) + 11 ELSE 0
       [] key = "hashtag" ->
            IF at("hashtag", i) THEN (IF at("s", i + 7) THEN i + 8 ELSE i + 7) ELSE 0
       [] OTHER -> IF at(key, i) THEN i + Len(key) ELSE 0

\* where the captured value starts for a match of  key\s*:\s*  at i, else 0
valueStart(low, key, i) ==
  With(keyEnd(low, key, i), LAMBDA e :
    With(IF e = 0 THEN 0 ELSE skipWs(low, e), LAMBDA c :
      IF e /= 0 /\ c <= Len(low) /\ CharAt(low, c) = ":" THEN skipWs(low, c + 1) ELSE 0))

\* the start of the captured value of the first match of the key in text, else 0
firstValueStart(text, key) ==
  With(toLowerCase(text), LAMBDA low :
    With({ i \in 1..Len(low) : valueStart(low, key, i) > 0 }, LAMBDA hits :
      IF hits = {} THEN 0
      ELSE valueStart(low, key, CHOOSE i \in hits : \A j \in hits : i <= j)))

\* ([^\n]+): up to the end of the line
restOfLine(text, from) ==
  With({ j \in from..Len(text) : CharAt(text, j) = "\n" }, LAMBDA stops :
    SubSeq(text, from,
           (IF stops = {} THEN Len(text) + 1 ELSE CHOOSE j \in stops : \A k \in stops : j <= k) - 1))

\* whether  \n\w+:  matches at j
nextKeyAt(text, j) ==
  /\ CharAt(text, j) = "\n"
  /\ \E k \in (j + 2)..Len(text) :
       /\ CharAt(text, k) = ":"
       /\ \A m \in (j + 1)..(k - 1) : IndexIn(CharAt(text, m), WordChars) > 0

\* ([\s\S]*?)(?:\n\w+:|$): up to the next key line or the end of the text
upToNextKey(text, from) ==
  With({ j \in from..Len(text) : nextKeyAt(text, j) }, LAMBDA stops :
    SubSeq(text, from,
           (IF stops = {} THEN Len(text) + 1 ELSE CHOOSE j \in stops : \A k \in stops : j <= k) - 1))

\* get(re) of parseKeyedLines: (text.match(re)?.[1] || "").trim()
getKeyed(text, key) ==
  With(<<text, firstValueStart(text, key)>>, LAMBDA t :
    IF t[2] = 0 \/ t[2] > Len(t[1]) THEN ""
    ELSE IF key = "short description" THEN trim(upToNextKey(t[1], t[2]))
    ELSE trim(restOfLine(t[1], t[2])))

\* a replace that removes one leading '#' only
stripOneHash(t) ==
  With(t, LAMBDA str : IF Len(str) > 0 /\ CharAt(str, 1) = "#" THEN Tail(str) ELSE str)

RECURSIVE stripHashes(_)
\* t.replace(/^#*/, "")
stripHashes(t) ==
  With(t, LAMBDA str :
    IF Len(str) > 0 /\ CharAt(str, 1) = "#" THEN stripHashes(Tail(str)) ELSE str)

\* split(/[, ]+/), strip the leading '#'s, drop the empty entries, add one '#'
tagsFromString(str) ==
  With(splitOn(str, "commaSpace"), LAMBDA parts :
    With(filterNonEmpty([ i \in 1..Len(parts) |-> stripHashes(parts[i]) ]), LAMBDA kept :
      [ i \in 1..Len(kept) |-> "#" \o kept[i] ]))

\* null, or the object {tagline, caption, shortDescription, hashtags}
parseKeyedLines(text) ==
  With(text, LAMBDA str :
    IF str = "" THEN JNull
    ELSE With(<< getKeyed(str, "tagline"), getKeyed(str, "caption"),
                 getKeyed(str, "short description"), getKeyed(str, "hashtag") >>, LAMBDA g :
      LET tagline          == g[1]
          caption          == g[2]
          shortDescription == g[3]
          hashtagsRaw      == g[4]
      IN With(IF hashtagsRaw = "" THEN <<>>
              ELSE With(splitOn(hashtagsRaw, "commaSpace"), LAMBDA parts :
                     With(filterNonEmpty([ i \in 1..Len(parts) |-> trim(stripHashes(parts[i])) ]),
                          LAMBDA kept : [ i \in 1..Len(kept) |-> "#" \o kept[i] ])),
              LAMBDA hashtagsArr :
           IF tagline = "" /\ caption = "" /\ shortDescription = "" /\ Len(hashtagsArr) = 0
           THEN JNull
           ELSE JObj([ tagline          |-> JStr(tagline),
                       caption          |-> JStr(caption),
                       shortDescription |-> JStr(shortDescription),
                       hashtags         |-> JArr([ i \in 1..Len(hashtagsArr) |->
                                                     JStr(hashtagsArr[i]) ]) ]))))

\* a ?? b
orNull(a, b) == With(a, LAMBDA x : IF x = JNull THEN b ELSE x)

\* the static default copy of coerceCopy (src/unnamed/part_001)
fallbackCopy(product) ==
  [ tagline          |-> "Meet " \o product,
    caption          |-> "Say hello to " \o product \o "! Fresh look, easy choice.",
    shortDescription |-> product \o " is designed to delight.",
    hashtags         |-> <<"#new", "#musthave", "#style", "#daily", "#love">> ]
\* MOCK_COPY (src/app/api/generate/route.ts)
MOCK_COPY(product) ==
  [ tagline          |-> "Meet " \o product,
    caption          |-> "Say hello to " \o product \o "! Fresh look, easy choice.",
    shortDescription |-> product \o " is designed to delight. Crafted with care and ready to impress~perfect for everyday use.",
    hashtags         |-> <<"#new", "#musthave", "#style", "#daily", "#love">> ]

\* a pick that returns the text as it came, untrimmed
pickKeyUntrimmed(o, keys) ==
  With({ i \in 1..Len(keys) :
           /\ keys[i] \in DOMAIN o
           /\ o[keys[i]].t = "str"
           /\ trim(o[keys[i]].s) /= "" }, LAMBDA good :
    IF good = {} THEN ""
    ELSE o[keys[CHOOSE i \in good : \A j \in good : i <= j]].s)

\* pick(...keys) inside coerceCopy: the first key holding non-blank text, trimmed
pickKey(o, keys) ==
  With({ i \in 1..Len(keys) :
           /\ keys[i] \in DOMAIN o
           /\ o[keys[i]].t = "str"
           /\ trim(o[keys[i]].s) /= "" }, LAMBDA good :
    IF good = {} THEN ""
    ELSE trim(o[keys[CHOOSE i \in good : \A j \in good : i <= j]].s))

\* the hashtags of an object: from an array of values or from one string
tagsOfObject(o) ==
  IF "hashtags" \notin DOMAIN o THEN <<>>
  ELSE With(o["hashtags"], LAMBDA raw :
         IF raw.t = "arr"
         THEN With(filterNonEmpty([ i \in 1..Len(raw.a) |->
                                      IF raw.a[i].t = "str" THEN raw.a[i].s ELSE "" ]),
                   LAMBDA kept : [ i \in 1..Len(kept) |-> "#" \o stripHashes(kept[i]) ])
         ELSE IF raw.t = "str" THEN tagsFromString(raw.s)
         ELSE <<>>)

\* an object branch that returns what it picked, without the defaults
coerceObjectUnfilled(input, fallback) ==
  With(IF input.t = "obj" THEN input.o ELSE <<>>, LAMBDA o :
    [ tagline          |-> pickKey(o, <<"tagline", "title", "headline">>),
      caption          |-> pickKey(o, <<"caption", "subtitle", "socialCaption">>),
      shortDescription |-> pickKey(o, <<"shortDescription", "short_description",
                                        "description", "blurb">>),
      hashtags         |-> slice0(tagsOfObject(o), 5) ])

\* the object branch of coerceCopy; an array is an object without these keys
coerceObject(input, fallback) ==
  With(<<IF input.t = "obj" THEN input.o ELSE <<>>, fallback>>, LAMBDA t :
    With(tagsOfObject(t[1]), LAMBDA hashtags :
      [ tagline          |-> orElse(pickKey(t[1], <<"tagline", "title", "headline">>),
                                    t[2].tagline),
        caption          |-> orElse(pickKey(t[1], <<"caption", "subtitle", "socialCaption">>),
                                    t[2].caption),
        shortDescription |-> orElse(pickKey(t[1], <<"shortDescription", "short_description",
                                                    "description", "blurb">>),
                                    t[2].shortDescription),
        hashtags         |-> IF Len(hashtags) > 0 THEN slice0(hashtags, 5) ELSE t[2].hashtags ]))

coerceWith(input, fallback) ==
  With(input, LAMBDA x :
    IF x.t \in {"obj", "arr"} THEN coerceObject(x, fallback)
    ELSE IF x.t = "str"
    THEN With(parseKeyedLines(x.s), LAMBDA o :
           IF o /= JNull THEN coerceObject(o, fallback) ELSE fallback)
    ELSE fallback)

coerceCopy(input, product) == coerceWith(input, fallbackCopy(product))
coerceCopyR(input, product) == coerceWith(input, MOCK_COPY(product))

(***************************************************************************)
(* Enforcement and the quality check                                       *)
(***************************************************************************)
ensureProductInTagline(copyIn, product) ==
  With(<<copyIn, trim(product)>>, LAMBDA t :
    IF t[2] /= "" /\ ~includes(toLowerCase(t[1].tagline), toLowerCase(t[2]))
    THEN [t[1] EXCEPT !.tagline = clampWords(t[2], 3) \o ": " \o t[1].tagline]
    ELSE t[1])
ensureProductInTaglineR(copyIn, product) ==
  With(<<copyIn, trim(product)>>, LAMBDA t :
    IF t[2] /= "" /\ ~includes(toLowerCase(t[1].tagline), toLowerCase(t[2]))
    THEN [t[1] EXCEPT !.tagline = clampWordsR(t[2], 3) \o ": " \o t[1].tagline]
    ELSE t[1])

\* h.startsWith("#") ? h : `#${h}`
withHash(h) == With(h, LAMBDA str : IF startsWith(str, "#") THEN str ELSE "#" \o str)

\* an ensureHashtags that puts the product and category tags first
ensureHashtagsAddedFirst(copyIn, product, cat) ==
  With(<<copyIn, slice0(slugParts(product), 2)>>, LAMBDA t :
    LET own   == [ i \in 1..Len(t[1].hashtags) |-> withHash(t[1].hashtags[i]) ]
        added == [ i \in 1..Len(t[2]) |-> "#" \o t[2][i] ]
    IN [t[1] EXCEPT !.hashtags = slice0(uniq(added \o <<categoryTag(cat)>> \o own), 5)])

ensureHashtags(copyIn, product, cat) ==
  With(<<copyIn, slice0(slugParts(product), 2)>>, LAMBDA t :
    LET own   == [ i \in 1..Len(t[1].hashtags) |-> withHash(t[1].hashtags[i]) ]
        added == [ i \in 1..Len(t[2]) |-> "#" \o t[2][i] ]
    IN [t[1] EXCEPT !.hashtags = slice0(uniq(own \o added \o <<categoryTag(cat)>>), 5)])
ensureHashtagsR(copyIn, product, cat) ==
  With(copyIn, LAMBDA c :
    LET own == [ i \in 1..Len(c.hashtags) |-> withHash(c.hashtags[i]) ]
    IN [c EXCEPT !.hashtags =
          slice0(uniq(own \o <<"#" \o firstWordTagR(product), categoryTag(cat)>>), 5)])

looksGeneric(copyIn, product, category, benefit) ==
  With(<< toLowerCase(trim(product)), toLowerCase(trim(category)), toLowerCase(trim(benefit)),
          toLowerCase(copyIn.tagline), toLowerCase(copyIn.caption), copyIn >>, LAMBDA t :
    LET p  == t[1]
        c  == t[2]
        b  == t[3]
        tl == t[4]
        cl == t[5]
        mentionsProduct      == p /= "" /\ (includes(tl, p) \/ includes(cl, p))
        mentionsCatOrBenefit == \/ (c /= "" /\ (includes(tl, c) \/ includes(cl, c)))
                                \/ (b /= "" /\ (includes(tl, b) \/ includes(cl, b)))
        tooShort             == \/ Len(splitWs(t[6].tagline)) < 2
                                \/ Len(splitWs(t[6].caption)) < 4
        isTemplatey          == \/ startsWith(t[6].tagline, "Meet " \o product)
                                \/ startsWith(t[6].caption, "Say hello to " \o product)
    IN ~mentionsProduct \/ ~mentionsCatOrBenefit \/ tooShort \/ isTemplatey)

\* the gate of route.ts without its test of the canned openings
looksGenericRLengthOnly(copyIn, product) ==
  \/ Len(splitWs(copyIn.tagline)) < 2
  \/ Len(splitWs(copyIn.caption)) < 4

looksGenericR(copyIn, product) ==
  With(<<copyIn, trim(product)>>, LAMBDA t :
    LET genericStarts == \/ startsWith(t[1].tagline, "Meet " \o t[2])
                         \/ startsWith(t[1].caption, "Say hello to " \o t[2])
        tooShort      == \/ Len(splitWs(t[1].tagline)) < 2
                         \/ Len(splitWs(t[1].caption)) < 4
    IN genericStarts \/ tooShort)

(***************************************************************************)
(* Process configuration, read once at start-up                            *)
(***************************************************************************)
\* AI_PROVIDER "" stands for the unset variable; the *_KEY fields say
\* whether the key is set to a non-empty value; VERCEL whether VERCEL = "1"
Envs ==
  [ OPENAI_API_KEY : BOOLEAN, GROQ_API_KEY : BOOLEAN, PEXELS_API_KEY : BOOLEAN,
    AI_PROVIDER : {"", "openai", "ollama"}, VERCEL : BOOLEAN ]

HAS_OPENAI(e) == e.OPENAI_API_KEY
HAS_GROQ(e) == e.GROQ_API_KEY
PROVIDER(e) ==
  IF e.AI_PROVIDER /= "" THEN e.AI_PROVIDER
  ELSE IF HAS_OPENAI(e) THEN "openai" ELSE "ollama"
PEXELS_KEY(e) == e.PEXELS_API_KEY
isVercel(e) == e.VERCEL

\* GET /api/diag: what the process reports about its configuration (the
\* fixed fields of the response are left out)
diagGET(e) ==
  LET hasGroq     == e.GROQ_API_KEY
      hasOpenAI   == e.OPENAI_API_KEY
      pexelsSet   == e.PEXELS_API_KEY
      providerEnv == IF e.AI_PROVIDER /= "" THEN e.AI_PROVIDER ELSE "(unset)"
      onVercel    == e.VERCEL
  IN [ isVercel    |-> onVercel,
       providerEnv |-> providerEnv,
       hasGroq     |-> hasGroq,
       hasOpenAI   |-> hasOpenAI,
       pexelsSet   |-> pexelsSet,
       willUse     |-> IF hasOpenAI THEN "openai"
                       ELSE IF hasGroq THEN "groq"
                       ELSE IF ~onVercel /\ providerEnv = "ollama" THEN "ollama"
                       ELSE "demo" ]

(***************************************************************************)
(* Requests                                                                *)
(***************************************************************************)
MaxProductWords == 5
ProductWords == <<"Hazel", "Nut", "Cold", "Brew", "Max", "Plus", "Ultra">>
ProductOf(n) == join(slice0(ProductWords, n), " ")

\* "" stands for a missing or empty field
Products == {"", ProductOf(1), ProductOf(MaxProductWords)}
Categories == {"", "Beverage"}
KeyBenefits == {"", "daily"}
Audiences == {""}
Tones == {"Bold"}
Platforms == {""}
ImageQueries == {"", "latte art"}
\* includeImage: absent, false or true
IncludeImages == {"undefined", "false", "true"}

Briefs ==
  [ product : Products, category : Categories, keyBenefit : KeyBenefits,
    audience : Audiences, tone : Tones, platform : Platforms ]

\* parses: whether req.json() yields the body
Bodies ==
  [ product : Products, category : Categories, keyBenefit : KeyBenefits,
    audience : Audiences, tone : Tones, platform : Platforms,
    imageStyle : {""}, colorHint : {""}, includeImage : IncludeImages,
    imageQuery : ImageQueries, parses : {TRUE} ]
MalformedBody ==
  [ product |-> "", category |-> "", keyBenefit |-> "", audience |-> "", tone |-> "",
    platform |-> "", imageStyle |-> "", colorHint |-> "", includeImage |-> "undefined",
    imageQuery |-> "", parses |-> FALSE ]

briefOf(body) ==
  [ product |-> body.product, category |-> body.category, keyBenefit |-> body.keyBenefit,
    audience |-> body.audience, tone |-> body.tone, platform |-> body.platform ]

\* a handler without the test of the product
productNeverTested(body) == FALSE

\* !product
missingProduct(body) == body.product = ""

\* includeImage !== false
wantsImage(body) == body.includeImage /= "false"

buildImageQueries(product, category, imageStyle, colorHint, imageQuery) ==
  LET qUser   == trim(imageQuery)
      base    == trim(join(filterNonEmpty(<<product, category, imageStyle, colorHint>>), " "))
      queries == filterNonEmpty(
                   << orElse(qUser, base),
                      join(filterNonEmpty(<<product, category, "product photo", imageStyle>>), " "),
                      join(filterNonEmpty(<<product, category, "studio", "minimal">>), " ") >>)
  IN uniq(queries)

(***************************************************************************)
(* What the external services may answer                                   *)
(***************************************************************************)
\* the contents a text provider may return for a brief: nothing; "{}"; text
\* without JSON or keys; JSON that names product, category and benefit; JSON about
\* something else; "Key: value" lines
ContentIds == {"empty", "emptyobj", "garbage", "good", "offtopic", "lines"}
ContentOf(id, b) ==
  CASE id = "empty"    -> EmptyContent
    [] id = "emptyobj" -> JsonContent(<<>>)
    [] id = "garbage"  -> TextContent("Sorry, I cannot help with that.")
    [] id = "good"     ->
         JsonContent([ tagline  |-> JStr(b.product \o " daily beverage boost"),
                       caption  |-> JStr("Sip " \o b.product \o " for a daily beverage lift."),
                       shortDescription |-> JStr("A drink for every day."),
                       hashtags |-> JArr(<<JStr("#sip"), JStr("lift"), JNum>>) ])
    [] id = "offtopic" ->
         JsonContent([ headline |-> JStr("Great taste"),
                       caption  |-> JStr("Simply the best choice today"),
                       hashtags |-> JStr("#best, taste") ])
    [] id = "lines"    ->
         TextContent("Tagline: " \o b.product \o " ~ your daily beverage\nCaption: Grab "
                       \o b.product \o " and enjoy it\nHashtags: #grab #enjoy")

\* a call to a text provider throws (network failure, non-success status, bad
\* envelope) or yields a content
TextOutcomes == {"throw"} \cup ContentIds

\* the outcomes that count as a failure of the provider: a transport error, a
\* non-success status, an empty content, a content without copy in it
FailureOutcomes == {"throw", "notok", "empty", "emptyobj", "garbage"}

\* gpt-image-1: the call throws, yields no image, or yields a PNG
ImageOutcomes == {"throw", "none", "png"}

\* the stock-photo search: the call throws, answers with a non-success status,
\* or yields a list of URLs (numbered)
MaxPhotoId == 6
UrlRange(a, b) == [ i \in 1..(b - a + 1) |-> a + i - 1 ]
PexelsOutcomes ==
  { [kind |-> "throw", urls |-> <<>>], [kind |-> "notok", urls |-> <<>>],
    [kind |-> "ok", urls |-> <<>>], [kind |-> "ok", urls |-> UrlRange(1, 3)],
    [kind |-> "ok", urls |-> UrlRange(4, MaxPhotoId)],
    [kind |-> "ok", urls |-> UrlRange(1, MaxPhotoId)] }

\* the Ollama endpoint: the call throws (also: the body is not JSON), answers
\* with a non-success status, or answers with a content
OllamaOutcomes == {"throw", "notok"} \cup ContentIds

Thrown == <<"thrown">>

\* getPexelsPhotos without its try/catch: a failing fetch reaches the caller
getPexelsPhotosUncaught(key, outcome) ==
  IF ~key THEN <<>>
  ELSE IF outcome.kind = "throw" THEN Thrown
  ELSE IF outcome.kind = "notok" THEN <<>>
  ELSE outcome.urls

\* getPexelsPhotos: [] without a key, on a throw and on a non-success status
getPexelsPhotos(key, outcome) ==
  IF ~key THEN <<>>
  ELSE IF outcome.kind \in {"throw", "notok"} THEN <<>>
  ELSE outcome.urls

(***************************************************************************)
(* From a provider's content to a judged candidate (src/unnamed/part_001)  *)
(***************************************************************************)
\* extractJsonFromText(raw) ?? parseKeyedLines(raw) ?? raw
parsedOf(raw) ==
  orNull(orNull(extractJsonFromText(raw), parseKeyedLines(raw.text)), JStr(raw.text))

\* candidateEnforced of the handler
candidateOf(raw, b) ==
  ensureHashtags(ensureProductInTagline(coerceCopy(parsedOf(raw), b.product), b.product),
                 b.product, b.category)

\* the values the handler computes from a brief, one row per brief
\* (f @@ <<>> is f, as an explicit table)
Composed ==
  [ b \in Briefs |->
      composeFallbackCopy(b.product, b.category, b.keyBenefit, b.audience, b.tone, b.platform) ] @@ <<>>
Candidate ==
  [ b \in Briefs |-> ([ id \in ContentIds |-> candidateOf(ContentOf(id, b), b) ] @@ <<>>) ] @@ <<>>
Generic ==
  [ b \in Briefs |->
      ([ id \in ContentIds |-> looksGeneric(Candidate[b][id], b.product, b.category, b.keyBenefit) ] @@ <<>>) ] @@ <<>>
ImgQueries ==
  [ body \in Bodies |->
      buildImageQueries(body.product, body.category, body.imageStyle, body.colorHint,
                        body.imageQuery) ] @@ <<>>

\* the photo loop stops at this many URLs and the response keeps this many
PhotoLimit == 6
\* a groqTry with one more prompt variant
GroqVariantsMore == 3 + 1
\* the number of prompt variants of groqTry
GroqVariants == 3

(***************************************************************************)
(* The request handler as a state machine                                  *)
(***************************************************************************)
\* snapshot      which handler runs: "part" (src/unnamed/part_001) or "route"
\*               (src/app/api/generate/route.ts)
\* env           the process configuration
\* req           the body of the request being served
\* pc            the await at which the handler stands
\* branch        route.ts only: the provider block control is in
\* copy          the local copy
\* providerUsed  part_001 only: the local providerUsed
\* gi            the next prompt variant of groqTry
\* qi            the next image query of the photo loop
\* photoUrls     the local photoUrls
\* imageDataUrl  "null", "png" (a generated image) or "svg" (the placeholder)
\* calls         the external calls made for this request, in order
\* rejected      the candidates the quality check turned down for this request
\* resp          the response, status 0 until there is one
\* accepted      history: a candidate of this request has passed the quality check
\* onlyFailures  history: every answer of a text provider so far is a failure
\* photosFailed  history: every stock-photo search so far threw or was answered
\*               with a non-success status
\* The response fields rawModelText, message and note are left out.
\* pureFn, pureIn, pureOut   a helper function applied on its own: its name
\*               ("" before the call), its arguments and its result
\* pageSnap      which page of src/app/page.tsx: "picker" (lines 1-344, with
\*               the photo picker) or "plain" (lines 345-577)
\* pageProduct, pageResult, pageSelected, imgIndex   the state of Home:
\*               product, result, selectedImage and imgIndex
\* loadErrors    history: the image load errors since imgIndex was last reset
VARIABLES snapshot, env, req, pc, branch, copy, providerUsed, gi, qi, photoUrls,
          imageDataUrl, calls, rejected, resp, accepted, onlyFailures, photosFailed,
          pureFn, pureIn, pureOut,
          pageSnap, pageProduct, pageResult, pageSelected, imgIndex, loadErrors,
          loading, pageError, requests, inFlight, resultOf

\* the variables of the helper calls, of the page and of the handler
pureVars == <<pureFn, pureIn, pureOut>>
\* loading and error of the page; the requests it has submitted, those not
\* yet settled, and the request whose response is the result (0 for none)
requestVars == <<loading, pageError, requests, inFlight, resultOf>>
pageVars ==
  <<pageSnap, pageProduct, pageResult, pageSelected, imgIndex, loadErrors, requestVars>>
handlerVars ==
  <<snapshot, env, req, pc, branch, copy, providerUsed, gi, qi, photoUrls,
    imageDataUrl, calls, rejected, resp, accepted, onlyFailures, photosFailed>>

\* the variables the handler does not touch
aside == <<pureVars, pageVars>>

\* the result of the page before a response has arrived ("" for null)
NoResult == [provider |-> "", imageDataUrl |-> "", photoUrls |-> <<>>]

\* the error of the page: <<>> for null, <<message>> for a message
NoError == <<>>

\* the page has just been loaded
PageIdle ==
  /\ pageProduct = "" /\ pageResult = NoResult /\ pageSelected = ""
  /\ imgIndex = 0 /\ loadErrors = 0
  /\ loading = FALSE /\ pageError = NoError
  /\ requests = 0 /\ inFlight = {} /\ resultOf = 0

NoCopy == [tagline |-> "", caption |-> "", shortDescription |-> "", hashtags |-> <<>>]
NoResponse == [status |-> 0]
Snapshots == {"part", "route"}

\* no request has arrived
HandlerIdle ==
  /\ req = MalformedBody
  /\ pc = "idle"
  /\ branch = ""
  /\ copy = NoCopy
  /\ providerUsed = "demo"
  /\ gi = 1
  /\ qi = 1
  /\ photoUrls = <<>>
  /\ imageDataUrl = "null"
  /\ calls = <<>>
  /\ rejected = {}
  /\ resp = NoResponse
  /\ accepted = FALSE
  /\ onlyFailures = TRUE
  /\ photosFailed = TRUE

Init ==
  /\ snapshot \in Snapshots
  /\ env \in Envs
  /\ HandlerIdle
  /\ pureFn = "" /\ pureIn = <<>> /\ pureOut = <<>>
  /\ pageSnap = "picker" /\ PageIdle

\* the catch of the whole handler
ServerError == [status |-> 500, error |-> "Server error"]
BadRequest == [status |-> 400, error |-> "Missing product"]

\* A request arrives: the body is read, a missing product is answered with
\* 400, and part_001 composes the baseline copy.  The handler keeps nothing
\* from one request to the next, so a behaviour serves one request.
Receive(body, T) ==
  /\ pc = "idle"
  /\ req' = body
  /\ UNCHANGED <<branch, providerUsed, gi, qi, photoUrls, imageDataUrl, calls, rejected,
                 accepted, onlyFailures>>
  /\ IF ~body.parses
     THEN /\ resp' = ServerError
          /\ pc' = "done"
          /\ copy' = NoCopy
     ELSE IF missingProduct(body)
     THEN /\ resp' = BadRequest
          /\ pc' = "done"
          /\ copy' = NoCopy
     ELSE /\ resp' = NoResponse
          /\ pc' = "openai"
          /\ copy' = IF snapshot = "part" THEN T.Composed[briefOf(body)] ELSE NoCopy
  /\ UNCHANGED <<snapshot, env>>
  /\ UNCHANGED <<aside, photosFailed>>

\* the quality check on candidate id: the copy and provider are replaced only
\* when the candidate passes
judge(id, name, T) ==
  LET b == briefOf(req)
  IN /\ onlyFailures' = (onlyFailures /\ id \in FailureOutcomes)
     /\ IF T.Generic[b][id]
        THEN /\ rejected' = rejected \cup {T.Candidate[b][id]}
             /\ UNCHANGED <<copy, providerUsed, accepted>>
        ELSE /\ copy' = T.Candidate[b][id]
             /\ providerUsed' = name
             /\ accepted' = TRUE
             /\ UNCHANGED rejected

\* part_001, step 1: OpenAI, when a key is configured
OpenAI(T) ==
  /\ snapshot = "part" /\ pc = "openai"
  /\ IF HAS_OPENAI(env)
     THEN \E out \in TextOutcomes :
            /\ calls' = Append(calls, "openai.chat")
            /\ IF out = "throw"
               THEN UNCHANGED <<copy, providerUsed, rejected, accepted, onlyFailures>>
               ELSE judge(out, "openai", T)
     ELSE UNCHANGED <<copy, providerUsed, rejected, calls, accepted, onlyFailures>>
  /\ pc' = "groq"
  /\ UNCHANGED <<snapshot, env, req, branch, gi, qi, photoUrls, imageDataUrl, resp>>
  /\ UNCHANGED <<aside, photosFailed>>

\* the Groq condition without  providerUsed === "demo"
groqWheneverKeyed(used, e) == HAS_GROQ(e)

\* providerUsed === "demo" && HAS_GROQ
groqEnabled(used, e) == used = "demo" /\ HAS_GROQ(e)

\* a variant's answer ends groqTry unless it is empty or "{}"
groqKeeps(out) == out \notin {"throw", "empty", "emptyobj"}

\* part_001, step 1 continued: one fetch of groqTry; after the last one the
\* returned text (empty when no variant gave any) is judged
Groq(T) ==
  /\ snapshot = "part" /\ pc = "groq"
  /\ IF groqEnabled(providerUsed, env)
     THEN \E out \in TextOutcomes :
            /\ calls' = Append(calls, "groq")
            /\ IF groqKeeps(out)
               THEN /\ judge(out, "groq", T)
                    /\ pc' = "pexels"
                    /\ gi' = gi
               ELSE IF gi < GroqVariants
               THEN /\ gi' = gi + 1
                    /\ pc' = pc
                    /\ UNCHANGED <<copy, providerUsed, rejected, accepted, onlyFailures>>
               ELSE /\ judge("empty", "groq", T)
                    /\ pc' = "pexels"
                    /\ gi' = gi
     ELSE /\ pc' = "pexels"
          /\ UNCHANGED <<copy, providerUsed, rejected, calls, gi, accepted, onlyFailures>>
  /\ UNCHANGED <<snapshot, env, req, branch, qi, photoUrls, imageDataUrl, resp>>
  /\ UNCHANGED <<aside, photosFailed>>

\* one iteration of  for (const q of imgQueries)  from stage "pexels": the
\* URLs are appended, and after the last iteration (the list is used up or
\* PhotoLimit is reached) the list is deduplicated and cut to PhotoLimit.
\* A throw goes to the enclosing catch: the next provider block, or "error"
\* for the catch of the whole handler.
photoStep(out, next, catch, T) ==
  LET urls == getPexelsPhotos(PEXELS_KEY(env), out)
      all  == photoUrls \o urls
  IN /\ photosFailed' = (photosFailed /\ out.kind \in {"throw", "notok"})
     /\ IF urls = Thrown
        THEN /\ resp' = IF catch = "error" THEN ServerError ELSE resp
             /\ pc' = IF catch = "error" THEN "done" ELSE catch
             /\ photoUrls' = <<>>
             /\ qi' = 1
        ELSE /\ resp' = resp
             /\ IF Len(all) >= PhotoLimit \/ qi >= Len(T.ImgQueries[req])
                THEN /\ photoUrls' = slice0(uniq(all), PhotoLimit)
                     /\ pc' = next
                     /\ qi' = qi
                ELSE /\ photoUrls' = all
                     /\ pc' = pc
                     /\ qi' = qi + 1

\* part_001, step 2: one stock-photo search
Pexels(T) ==
  /\ snapshot = "part" /\ pc = "pexels"
  /\ wantsImage(req) /\ PEXELS_KEY(env)
  /\ \E out \in PexelsOutcomes : photoStep(out, "ollama", "error", T)
  /\ calls' = Append(calls, "pexels")
  /\ UNCHANGED <<snapshot, env, req, branch, copy, providerUsed, gi, imageDataUrl, rejected,
                 accepted, onlyFailures>>
  /\ UNCHANGED aside

\* part_001, step 2 when includeImage is false, or when no key is configured
\* and every getPexelsPhotos returns [] without a fetch
PexelsSkip ==
  /\ snapshot = "part" /\ pc = "pexels"
  /\ ~(wantsImage(req) /\ PEXELS_KEY(env))
  /\ pc' = "ollama"
  /\ UNCHANGED <<snapshot, env, req, branch, copy, providerUsed, gi, qi, photoUrls,
                 imageDataUrl, calls, rejected, resp, accepted, onlyFailures>>
  /\ UNCHANGED <<aside, photosFailed>>

\* !isVercel && PROVIDER === "ollama" && providerUsed === "demo"
ollamaEnabled(e, used) == ~isVercel(e) /\ PROVIDER(e) = "ollama" /\ used = "demo"

\* part_001, step 3: the local Ollama endpoint; only a success status is read
Ollama(T) ==
  /\ snapshot = "part" /\ pc = "ollama"
  /\ IF ollamaEnabled(env, providerUsed)
     THEN \E out \in OllamaOutcomes :
            /\ calls' = Append(calls, "ollama")
            /\ IF out \in {"throw", "notok"}
               THEN UNCHANGED <<copy, providerUsed, rejected, accepted, onlyFailures>>
               ELSE judge(out, "ollama", T)
     ELSE UNCHANGED <<copy, providerUsed, rejected, calls, accepted, onlyFailures>>
  /\ pc' = "return"
  /\ UNCHANGED <<snapshot, env, req, branch, gi, qi, photoUrls, imageDataUrl, resp>>
  /\ UNCHANGED <<aside, photosFailed>>

\* part_001, step 4: the response
Return ==
  /\ snapshot = "part" /\ pc = "return"
  /\ resp' = [ status |-> 200, provider |-> providerUsed, demo |-> (providerUsed = "demo"),
               copy |-> copy, imageDataUrl |-> "null", photoUrls |-> photoUrls ]
  /\ pc' = "done"
  /\ UNCHANGED <<snapshot, env, req, branch, copy, providerUsed, gi, qi, photoUrls,
                 imageDataUrl, calls, rejected, accepted, onlyFailures>>
  /\ UNCHANGED <<aside, photosFailed>>

(***************************************************************************)
(* The handler of src/app/api/generate/route.ts                            *)
(***************************************************************************)
\* the copy handed to finalize: OpenAI's content defaults to "{}" and is not
\* tried as keyed lines before coerceCopy; Groq's is
coercedR(raw, b, name) ==
  IF name = "openai"
  THEN LET r == IF IsEmptyContent(raw) THEN JsonContent(<<>>) ELSE raw
       IN coerceCopyR(orNull(extractJsonFromText(r), JStr(r.text)), b.product)
  ELSE coerceCopyR(parsedOf(raw), b.product)

\* the first two lines of finalize
enforcedR(copyIn, b) ==
  ensureHashtagsR(ensureProductInTaglineR(copyIn, b.product), b.product, b.category)

ComposedR ==
  [ b \in Briefs |->
      composeFallbackCopyR(b.product, b.category, b.keyBenefit, b.audience, b.tone, b.platform) ] @@ <<>>
CandidateR ==
  [ b \in Briefs |->
      ([ id \in ContentIds |->
           ([ name \in {"openai", "groq"} |-> enforcedR(coercedR(ContentOf(id, b), b, name), b) ]
              @@ <<>>) ] @@ <<>>) ] @@ <<>>
GenericR ==
  [ b \in Briefs |->
      ([ id \in ContentIds |->
           ([ name \in {"openai", "groq"} |-> looksGenericR(CandidateR[b][id][name], b.product) ]
              @@ <<>>) ] @@ <<>>) ] @@ <<>>

\* finalize(coerceCopy(parsed, product)) inside the block of provider name
finalize(id, name, T) ==
  LET b == briefOf(req)
  IN /\ branch' = name
     /\ onlyFailures' = (onlyFailures /\ id \in FailureOutcomes)
     /\ IF T.GenericR[b][id][name]
        THEN /\ copy' = T.ComposedR[b]
             /\ rejected' = rejected \cup {T.CandidateR[b][id][name]}
             /\ UNCHANGED accepted
        ELSE /\ copy' = T.CandidateR[b][id][name]
             /\ accepted' = TRUE
             /\ UNCHANGED rejected

\* route.ts, block 1: the chat completion; a throw falls through to Groq
OpenAIR(T) ==
  /\ snapshot = "route" /\ pc = "openai"
  /\ IF HAS_OPENAI(env)
     THEN \E out \in TextOutcomes :
            /\ calls' = Append(calls, "openai.chat")
            /\ IF out = "throw"
               THEN /\ pc' = "groq"
                    /\ UNCHANGED <<copy, branch, rejected, accepted, onlyFailures>>
               ELSE /\ finalize(out, "openai", T)
                    /\ pc' = IF wantsImage(req) THEN "image" ELSE "pexels"
     ELSE /\ pc' = "groq"
          /\ UNCHANGED <<copy, branch, rejected, calls, accepted, onlyFailures>>
  /\ UNCHANGED <<snapshot, env, req, providerUsed, gi, qi, photoUrls, imageDataUrl, resp>>
  /\ UNCHANGED <<aside, photosFailed>>

\* route.ts, block 1: the image generation, with its own catch
ImageR ==
  /\ snapshot = "route" /\ pc = "image"
  /\ \E out \in ImageOutcomes :
       imageDataUrl' = IF out = "png" THEN "png" ELSE "null"
  /\ calls' = Append(calls, "openai.images")
  /\ pc' = "pexels"
  /\ UNCHANGED <<snapshot, env, req, branch, copy, providerUsed, gi, qi, photoUrls,
                 rejected, resp, accepted, onlyFailures>>
  /\ UNCHANGED <<aside, photosFailed>>

\* route.ts, block 1.5: one fetch of groqTry, then finalize
GroqR(T) ==
  /\ snapshot = "route" /\ pc = "groq"
  /\ IF HAS_GROQ(env)
     THEN \E out \in TextOutcomes :
            /\ calls' = Append(calls, "groq")
            /\ IF groqKeeps(out)
               THEN /\ finalize(out, "groq", T)
                    /\ pc' = "pexels"
                    /\ gi' = gi
               ELSE IF gi < GroqVariants
               THEN /\ gi' = gi + 1
                    /\ pc' = pc
                    /\ UNCHANGED <<copy, branch, rejected, accepted, onlyFailures>>
               ELSE /\ finalize("empty", "groq", T)
                    /\ pc' = "pexels"
                    /\ gi' = gi
     ELSE /\ pc' = "ollama"
          /\ UNCHANGED <<copy, branch, rejected, calls, gi, accepted, onlyFailures>>
  /\ UNCHANGED <<snapshot, env, req, providerUsed, qi, photoUrls, imageDataUrl, resp>>
  /\ UNCHANGED <<aside, photosFailed>>

\* the Ollama condition without  !isVercel
ollamaSelectedR(e) == PROVIDER(e) = "ollama"

\* !isVercel && PROVIDER === "ollama"
ollamaEnabledR(e) == ~isVercel(e) /\ PROVIDER(e) = "ollama"

\* route.ts, block 2: the local Ollama endpoint.  A non-success status is
\* answered at once; a success yields the composed copy whatever the content;
\* a throw, like a disabled Ollama, leads to block 3, the demo fallback.
OllamaR(T) ==
  /\ snapshot = "route" /\ pc = "ollama"
  /\ IF ollamaEnabledR(env)
     THEN \E out \in OllamaOutcomes :
            /\ calls' = Append(calls, "ollama")
            /\ CASE out = "throw" ->
                      /\ pc' = "pexels"
                      /\ branch' = "demo"
                      /\ imageDataUrl' = "svg"
                      /\ UNCHANGED <<copy, resp, onlyFailures>>
                 [] out = "notok" ->
                      /\ pc' = "done"
                      /\ branch' = "ollama"
                      /\ imageDataUrl' = "svg"
                      /\ copy' = T.ComposedR[briefOf(req)]
                      /\ resp' = [ status |-> 200, provider |-> "ollama", demo |-> TRUE,
                                   copy |-> T.ComposedR[briefOf(req)], imageDataUrl |-> "svg",
                                   photoUrls |-> <<>> ]
                      /\ UNCHANGED onlyFailures
                 [] OTHER ->
                      /\ pc' = "pexels"
                      /\ branch' = "ollama"
                      /\ copy' = T.ComposedR[briefOf(req)]
                      /\ onlyFailures' = (onlyFailures /\ out \in FailureOutcomes)
                      /\ UNCHANGED <<imageDataUrl, resp>>
     ELSE /\ pc' = "pexels"
          /\ branch' = "demo"
          /\ imageDataUrl' = "svg"
          /\ UNCHANGED <<copy, resp, calls, onlyFailures>>
  /\ UNCHANGED <<snapshot, env, req, providerUsed, gi, qi, photoUrls, rejected, accepted>>
  /\ UNCHANGED <<aside, photosFailed>>

\* the condition of the photo loop: includeImage !== false in the provider
\* blocks, imageQuery || PEXELS_KEY in the demo fallback
photoLoopRuns(block, body, e) ==
  IF block = "demo" THEN body.imageQuery /= "" \/ PEXELS_KEY(e) ELSE wantsImage(body)

\* where a throw inside the photo loop of a block is caught
catchOf(block) ==
  CASE block = "openai" -> "groq"
    [] block = "groq"   -> "ollama"
    [] block = "ollama" -> "pexels"
    [] OTHER            -> "error"

\* route.ts: one stock-photo search
PexelsR(T) ==
  /\ snapshot = "route" /\ pc = "pexels"
  /\ photoLoopRuns(branch, req, env) /\ PEXELS_KEY(env)
  /\ \E out \in PexelsOutcomes :
       /\ photoStep(out, "return", catchOf(branch), T)
       /\ IF getPexelsPhotos(PEXELS_KEY(env), out) = Thrown /\ branch = "ollama"
          THEN branch' = "demo" /\ imageDataUrl' = "svg"
          ELSE UNCHANGED <<branch, imageDataUrl>>
  /\ calls' = Append(calls, "pexels")
  /\ UNCHANGED <<snapshot, env, req, copy, providerUsed, gi, rejected, accepted, onlyFailures>>
  /\ UNCHANGED aside

\* route.ts: the photo loop does not run, or runs without a key, every
\* getPexelsPhotos returning [] without a fetch
PexelsSkipR ==
  /\ snapshot = "route" /\ pc = "pexels"
  /\ ~(photoLoopRuns(branch, req, env) /\ PEXELS_KEY(env))
  /\ pc' = "return"
  /\ UNCHANGED <<snapshot, env, req, branch, copy, providerUsed, gi, qi, photoUrls,
                 imageDataUrl, calls, rejected, resp, accepted, onlyFailures>>
  /\ UNCHANGED <<aside, photosFailed>>

\* route.ts: the response of the block control is in
ReturnR(T) ==
  /\ snapshot = "route" /\ pc = "return"
  /\ copy' = IF branch = "demo" THEN T.ComposedR[briefOf(req)] ELSE copy
  /\ resp' = [ status |-> 200, provider |-> branch, demo |-> (branch = "demo"),
               copy |-> copy',
               imageDataUrl |-> IF branch \in {"openai", "demo"} THEN imageDataUrl ELSE "null",
               photoUrls |-> photoUrls ]
  /\ pc' = "done"
  /\ UNCHANGED <<snapshot, env, req, branch, providerUsed, gi, qi, photoUrls,
                 imageDataUrl, calls, rejected, accepted, onlyFailures>>
  /\ UNCHANGED <<aside, photosFailed>>

vars == <<snapshot, env, req, pc, branch, copy, providerUsed, gi, qi, photoUrls,
          imageDataUrl, calls, rejected, resp, accepted, onlyFailures, photosFailed,
          pureFn, pureIn, pureOut,
          pageSnap, pageProduct, pageResult, pageSelected, imgIndex, loadErrors,
          loading, pageError, requests, inFlight, resultOf>>

\* the tables, evaluated once for all the actions
Tables ==
  [ Composed |-> Composed, Candidate |-> Candidate, Generic |-> Generic,
    ComposedR |-> ComposedR, CandidateR |-> CandidateR, GenericR |-> GenericR,
    ImgQueries |-> ImgQueries ]

Next ==
  \E T \in {Tables} :
    \/ \E body \in Bodies \cup {MalformedBody} : Receive(body, T)
    \/ OpenAI(T)
    \/ Groq(T)
    \/ Pexels(T)
    \/ PexelsSkip
    \/ Ollama(T)
    \/ Return
    \/ OpenAIR(T)
    \/ ImageR
    \/ GroqR(T)
    \/ OllamaR(T)
    \/ PexelsR(T)
    \/ PexelsSkipR
    \/ ReturnR(T)

Spec == Init /\ [][Next]_vars

\* The handler is one async function: after each await it runs on to the next
\* one, and every awaited call settles (it resolves, or it rejects, at the
\* latest when the runtime gives up on the connection).
FairSpec == Spec /\ WF_vars(Next)

(***************************************************************************)
(* The helpers on their own: an input is drawn, one helper is applied      *)
(***************************************************************************)
NoEnv ==
  [ OPENAI_API_KEY |-> FALSE, GROQ_API_KEY |-> FALSE, PEXELS_API_KEY |-> FALSE,
    AI_PROVIDER |-> "", VERCEL |-> FALSE ]

\* copies a provider may send for product p: the two canned defaults, a copy
\* about something else, a copy that names the product, the category
\* "Beverage" and the benefit "daily", a grounded copy that starts like the
\* canned default, a copy that is too short, and a copy that names the product
\* in lower case only
GateCopies(p) ==
  { fallbackCopy(p),
    MOCK_COPY(p),
    [ tagline |-> "Great taste", caption |-> "Simply the best choice today",
      shortDescription |-> p \o " is here.", hashtags |-> <<"#best", "taste", "#best">> ],
    [ tagline |-> p \o " daily beverage boost",
      caption |-> "Sip " \o p \o " for a daily beverage lift.",
      shortDescription |-> "A drink for every day.", hashtags |-> <<"#sip", "#lift">> ],
    [ tagline |-> "Meet " \o p \o " daily",
      caption |-> "Your beverage, " \o p \o ", every day",
      shortDescription |-> "A drink.", hashtags |-> <<"#a", "#b", "#c", "#d", "#e">> ],
    [ tagline |-> p, caption |-> "Try " \o p,
      shortDescription |-> "", hashtags |-> <<>> ],
    [ tagline |-> toLowerCase(p) \o " rocks", caption |-> "We love it each morning",
      shortDescription |-> "", hashtags |-> <<"rocks">> ] }

GateProducts == {"Widget", ProductOf(MaxProductWords)}

PureInputs ==
  UNION { [ copy : GateCopies(p), product : {p}, category : Categories,
            keyBenefit : KeyBenefits ] : p \in GateProducts }

\* a key benefit of many words, with irregular spacing
LongBenefit ==
  "  steady  clean energy that lasts all day long without any sugar crash or jitters so you "
    \o "can focus on your work and your life every single morning "

\* the briefs handed to the Composers and to clampWords
ComposerInputs ==
  [ copy : {NoCopy}, product : Products, category : Categories,
    keyBenefit : KeyBenefits \cup {LongBenefit} ]

\* values handed to coerceCopy: null, a number, strings with and without
\* "Key: value" lines, an array, objects with some of the fields, with
\* aliases, with blank or non-string fields, with hashtags given as an array
\* or as one string
RawValues ==
  { JNull, JNum, JStr(""), JStr("Sorry, I cannot help with that."),
    JStr("Tagline: Fresh start\nCaption: Grab one and enjoy it"),
    JStr("Here you go.\nShort description: A drink for every day.\nHashtags: ##grab, #, enjoy"),
    JStr("Hashtags: #a #b #c #d #e #f #g"),
    JArr(<<JStr("Fresh start")>>),
    JObj(<<>>),
    JObj([ tagline |-> JStr("Fresh start") ]),
    JObj([ title |-> JStr("  Fresh start "), subtitle |-> JStr("Grab one and enjoy it"),
           blurb |-> JStr("A drink for every day.") ]),
    JObj([ tagline |-> JStr("   "), headline |-> JStr("Fresh start"), caption |-> JNum,
           shortDescription |-> JNull, hashtags |-> JNum ]),
    JObj([ caption |-> JStr("Grab one and enjoy it"),
           hashtags |-> JArr(<<JStr("##grab"), JNum, JStr(""), JStr("enjoy"), JStr("#"),
                               JStr(" #now"), JStr("#e"), JStr("#f")>>) ]),
    JObj([ hashtags |-> JArr(<<JNum, JStr(""), JNull>>) ]),
    JObj([ description |-> JStr("A drink for every day."),
           hashtags |-> JStr("##grab, #, enjoy,,now  #e #f #g") ]),
    JObj([ hashtags |-> JStr(" , ") ]),
    JObj([ hashtags |-> JStr("#sip #hazel sip #lift") ]),
    JObj([ tagline |-> JStr(" Hazel-beverage "), caption |-> JStr("Sip Hazel beverage ") ]),
    JObj([ tagline |-> JStr("Hazel beverage boost"), caption |-> JStr("Sip Hazel beverage daily") ]) }

\* the inputs of coerceCopy
RawInputs ==
  [ copy : {NoCopy}, raw : RawValues, product : Products, category : Categories,
    keyBenefit : {""} ]

\* the texts handed to hashString: the empty one, two short ones and the
\* joined fields of every brief
HashTexts ==
  {"", "a", "foobar"}
    \cup { join(<<b.product, b.category, b.keyBenefit, b.audience, b.tone, b.platform>>, "|") :
             b \in Briefs }
HashInputs == [ text : HashTexts ]

\* seeds at the ends of 0 .. 2^32 - 1, around 2^31, and two hash values
PickSeeds ==
  { <<0, 0>>, <<0, 1>>, <<32767, 65535>>, <<32768, 0>>, <<65535, 65534>>, <<65535, 65535>>,
    hashString("foobar"), hashString("Hazel|Beverage|daily||Bold|") }
\* the number of templates of composeFallbackCopy
TemplateCount == 3
\* the calls of pick: a word list, a seed and a salt (salt 0: the template index)
PickInputs ==
  [ list : {verbs, closers, useCases, verbsR, closersR}, seed : PickSeeds, salt : 0..7 ]

PureInit ==
  /\ snapshot = "part"
  /\ env = NoEnv
  /\ HandlerIdle
  /\ pureFn = "" /\ pureOut = <<>>
  /\ pureIn \in PureInputs \cup ComposerInputs \cup RawInputs \cup HashInputs \cup PickInputs
  /\ pageSnap = "picker" /\ PageIdle

\* the call  fn(...)  returning result
Apply(fn, result) ==
  /\ pureFn = ""
  /\ pureFn' = fn
  /\ pureOut' = result
  /\ UNCHANGED <<pureIn, handlerVars, pageVars>>

ApplyLooksGeneric ==
  /\ "copy" \in DOMAIN pureIn
  /\ pureIn.copy /= NoCopy
  /\ Apply("looksGeneric",
           looksGeneric(pureIn.copy, pureIn.product, pureIn.category, pureIn.keyBenefit))

ApplyLooksGenericR ==
  /\ "copy" \in DOMAIN pureIn
  /\ pureIn.copy /= NoCopy
  /\ Apply("looksGenericR", looksGenericR(pureIn.copy, pureIn.product))

\* the word limits the Composers pass to clampWords
ClampLimits == {3, 4, TaglineWords, CaptionWordsR, CaptionWords}

\* the enforcement functions and their value on a copy, under the inputs
Enforcements ==
  {"ensureProductInTagline", "ensureProductInTaglineR", "ensureHashtags", "ensureHashtagsR"}
enforce(fn, copyIn, in) ==
  CASE fn = "ensureProductInTagline"  -> ensureProductInTagline(copyIn, in.product)
    [] fn = "ensureProductInTaglineR" -> ensureProductInTaglineR(copyIn, in.product)
    [] fn = "ensureHashtags"          -> ensureHashtags(copyIn, in.product, in.category)
    [] fn = "ensureHashtagsR"         -> ensureHashtagsR(copyIn, in.product, in.category)

\* an enforcement function is applied to the copy; pureOut lists the results
ApplyEnforce ==
  /\ "copy" \in DOMAIN pureIn
  /\ pureIn.copy /= NoCopy
  /\ \E fn \in Enforcements : Apply(fn, <<enforce(fn, pureIn.copy, pureIn)>>)

\* a Composer of either file is called with the brief of the inputs
ApplyCompose ==
  /\ "copy" \in DOMAIN pureIn
  /\ pureIn.copy = NoCopy
  /\ \/ Apply("composeFallbackCopy",
               composeFallbackCopy(pureIn.product, pureIn.category, pureIn.keyBenefit, "", "", ""))
     \/ Apply("composeFallbackCopyR",
               composeFallbackCopyR(pureIn.product, pureIn.category, pureIn.keyBenefit, "", "", ""))

\* the Quality Gate's verdict on the Composer's own copy for a brief
composedVerdict(in) ==
  With(composeFallbackCopy(in.product, in.category, in.keyBenefit, "", "", ""), LAMBDA c :
    [ copy |-> c, generic |-> looksGeneric(c, in.product, in.category, in.keyBenefit) ])

composedVerdictR(in) ==
  With(composeFallbackCopyR(in.product, in.category, in.keyBenefit, "", "", ""), LAMBDA c :
    [ copy |-> c, generic |-> looksGenericR(c, in.product) ])

\* the hashtags of a coerced copy before and after ensureHashtags
ensured(in) ==
  With(coerceCopy(in.raw, in.product), LAMBDA c :
    [ before |-> c.hashtags, after |-> ensureHashtags(c, in.product, in.category).hashtags ])

ensuredR(in) ==
  With(coerceCopyR(in.raw, in.product), LAMBDA c :
    [ before |-> c.hashtags, after |-> ensureHashtagsR(c, in.product, in.category).hashtags ])

\* ensureHashtags of either file is called with the copy coerceCopy returns
ApplyEnsureHashtags ==
  /\ "raw" \in DOMAIN pureIn
  /\ \/ Apply("ensureHashtags of coerceCopy", ensured(pureIn))
     \/ Apply("ensureHashtagsR of coerceCopyR", ensuredR(pureIn))

\* looksGeneric of either file is called with the copy its Composer returns
ApplyComposeGate ==
  /\ "copy" \in DOMAIN pureIn
  /\ pureIn.copy = NoCopy
  /\ \/ Apply("looksGeneric of composeFallbackCopy", composedVerdict(pureIn))
     \/ Apply("looksGenericR of composeFallbackCopyR", composedVerdictR(pureIn))

\* clampWords of either file is called with the key benefit as text
ApplyClampWords ==
  /\ "copy" \in DOMAIN pureIn
  /\ pureIn.copy = NoCopy
  /\ \E max \in ClampLimits :
        \/ Apply("clampWords", [max |-> max, text |-> clampWords(pureIn.keyBenefit, max)])
        \/ Apply("clampWordsR", [max |-> max, text |-> clampWordsR(pureIn.keyBenefit, max)])

\* the same function is applied to its own result
ApplyEnforceAgain ==
  /\ pureFn \in Enforcements
  /\ Len(pureOut) = 1
  /\ pureOut' = Append(pureOut, enforce(pureFn, pureOut[1], pureIn))
  /\ UNCHANGED <<pureFn, pureIn, handlerVars, pageVars>>

\* coerceCopy of either file is called with a raw value
ApplyCoerce ==
  /\ "raw" \in DOMAIN pureIn
  /\ \/ Apply("coerceCopy", coerceCopy(pureIn.raw, pureIn.product))
     \/ Apply("coerceCopyR", coerceCopyR(pureIn.raw, pureIn.product))

\* the handler's way from a parsed value to the verdict of the gate:
\* coerceCopy, the two enforcement steps, looksGeneric
gateVerdict(in) ==
  With(ensureHashtags(ensureProductInTagline(coerceCopy(in.raw, in.product), in.product),
                      in.product, in.category), LAMBDA c :
    [ copy |-> c, generic |-> looksGeneric(c, in.product, in.category, in.keyBenefit) ])
gateVerdictR(in) ==
  With(ensureHashtagsR(ensureProductInTaglineR(coerceCopyR(in.raw, in.product), in.product),
                       in.product, in.category), LAMBDA c :
    [ copy |-> c, generic |-> looksGenericR(c, in.product) ])

ApplyGate ==
  /\ "raw" \in DOMAIN pureIn
  /\ \/ Apply("looksGeneric after enforcement", gateVerdict(pureIn))
     \/ Apply("looksGenericR after enforcement", gateVerdictR(pureIn))

\* hashString is called with a text; the seed is the pair of its 16-bit halves
ApplyHashString ==
  /\ "text" \in DOMAIN pureIn
  /\ Apply("hashString", hashString(pureIn.text))

\* pick is called with a list, a seed and a salt
ApplyPick ==
  /\ "list" \in DOMAIN pureIn /\ pureIn.salt >= 1
  /\ Apply("pick", pick(pureIn.list, pureIn.seed, pureIn.salt))

\* seed % templates.length
ApplyTemplateIndex ==
  /\ "list" \in DOMAIN pureIn /\ pureIn.salt = 0
  /\ Apply("template", seedMod(pureIn.seed, 0, TemplateCount))

PureNext ==
  \/ ApplyLooksGeneric
  \/ ApplyLooksGenericR
  \/ ApplyEnforce
  \/ ApplyEnforceAgain
  \/ ApplyCompose
  \/ ApplyClampWords
  \/ ApplyCoerce
  \/ ApplyGate
  \/ ApplyHashString
  \/ ApplyPick
  \/ ApplyEnsureHashtags
  \/ ApplyComposeGate
  \/ ApplyTemplateIndex

PureSpec == PureInit /\ [][PureNext]_vars

(***************************************************************************)
(* The poster of src/app/page.tsx: the list of image sources and the       *)
(* index of the one shown.  The markup of the SVG is shortened to its      *)
(* text element.                                                           *)
(***************************************************************************)
HexDigits == "0123456789ABCDEF"
UriUnreserved == UpperChars \o LowerChars \o DigitChars \o "-_.!~*'()"

\* %XX for a character code below 128
percentEncode(code) ==
  "%" \o CharAt(HexDigits, (code \div 16) + 1) \o CharAt(HexDigits, (code % 16) + 1)

encodeURIComponent(s) ==
  With(s, LAMBDA str :
    join([ i \in 1..Len(str) |->
             IF IndexIn(CharAt(str, i), UriUnreserved) > 0
             THEN CharAt(str, i)
             ELSE percentEncode(charCodeAt(str, i)) ], ""))

\* the label keeps this many characters of the product
LabelChars == 28

placeholderSvgDataUrl(product) ==
  "data:image/svg+xml;utf8,"
    \o encodeURIComponent("<svg><text>" \o Sub(orElse(product, "Your product"), 1, LabelChars)
                            \o "</text></svg>")

\* encodeURIComponent(product || "product")
topicOf(product) == encodeURIComponent(orElse(product, "product"))
\* encodeURIComponent((product || "product").replace(/\s+/g, ","))
tagsOf(product) == encodeURIComponent(join(splitWs(orElse(product, "product")), ","))

unsplashUrl(product) == "https://source.unsplash.com/1024x1024/?" \o topicOf(product)
picsumUrl(product) == "https://picsum.photos/seed/" \o topicOf(product) \o "/1024/1024"
loremflickrUrl(product) == "https://loremflickr.com/1024/1024/" \o tagsOf(product)

\* [x] when x is truthy, [] otherwise
ifTruthy(x) == IF x = "" THEN <<>> ELSE <<x>>

\* the sources that depend on the product alone
sourcesOf(product) ==
  [ base |-> placeholderSvgDataUrl(product),
    unsplash |-> unsplashUrl(product),
    loremflickr |-> loremflickrUrl(product),
    picsum |-> picsumUrl(product) ]

\* fallbacks of the page with the picker (lines 110-128)
fallbacks(sources, result, selectedImage) ==
  uniq(ifTruthy(selectedImage) \o ifTruthy(result.imageDataUrl) \o result.photoUrls
         \o <<sources.unsplash, sources.picsum, sources.base>>)

\* fallbacks of the plain page (lines 421-436)
fallbacksPlain(sources, result) ==
  (IF result.provider = "openai" THEN ifTruthy(result.imageDataUrl) ELSE <<>>)
    \o <<sources.unsplash, sources.loremflickr, sources.picsum, sources.base>>

PageProducts == {"", ProductOf(1), ProductOf(Len(ProductWords))}

\* the sources of every product of the page, computed once
PageSources == [p \in PageProducts |-> sourcesOf(p)] @@ <<>>

\* the list of the page shown
PageFallbacks ==
  IF pageSnap = "picker" THEN fallbacks(PageSources[pageProduct], pageResult, pageSelected)
  ELSE fallbacksPlain(PageSources[pageProduct], pageResult)

\* fallbacks[imgIndex] || placeholderSvgDataUrl(product)
posterSrc ==
  IF imgIndex < Len(PageFallbacks) THEN PageFallbacks[imgIndex + 1]
  ELSE PageSources[pageProduct].base

\* a handler that advances without the clamp
handleImgErrorUnclamped(i, n) == i + 1

\* Math.min(i + 1, fallbacks.length - 1)
handleImgError(i, n) == IF i + 1 < n - 1 THEN i + 1 ELSE n - 1

\* the dependencies of the effect that resets imgIndex
effectDeps == <<Len(PageFallbacks), pageProduct, pageResult.provider, pageSelected>>

\* after a state change the effect runs when a dependency has changed
Rerender ==
  IF effectDeps' /= effectDeps
  THEN imgIndex' = 0 /\ loadErrors' = 0
  ELSE UNCHANGED <<imgIndex, loadErrors>>

PngDataUrl == "data:image/png;base64,iVBORw0KGgo="
ServerSvgDataUrl == "data:image/svg+xml;base64,PHN2Zz48L3N2Zz4="
PexelsUrl(n) == "https://images.pexels.com/photos/" \o CharAt(DigitChars, n + 1) \o "/large2x.jpg"

\* the responses the page may receive
PageResults ==
  { [provider |-> "openai", imageDataUrl |-> PngDataUrl, photoUrls |-> <<PexelsUrl(1), PexelsUrl(2)>>],
    [provider |-> "openai", imageDataUrl |-> "", photoUrls |-> <<>>],
    [provider |-> "groq", imageDataUrl |-> "", photoUrls |-> <<PexelsUrl(1)>>],
    [provider |-> "demo", imageDataUrl |-> ServerSvgDataUrl,
     photoUrls |-> <<PexelsUrl(1), PexelsUrl(2), PexelsUrl(3)>>],
    [provider |-> "demo", imageDataUrl |-> ServerSvgDataUrl, photoUrls |-> <<>>] }

\* the load errors counted in one behaviour
MaxLoadErrors == 9

\* the requests submitted in one behaviour
MaxRequests == 3

\* a submit button that is never disabled
submitNeverDisabled(isLoading) == FALSE

\* <button disabled={loading}>
submitDisabled(isLoading) == isLoading

\* what the fetch of handleGenerate and res.json() can settle with: a
\* success response, a non-OK response of the handler (400, 500), a non-OK
\* response with JSON that has no error field, a rejected fetch, and a body
\* that is not JSON
Settlements ==
  { [kind |-> "ok", data |-> r] : r \in PageResults }
    \cup { [kind |-> "status", data |-> [error |-> e]] : e \in {"Missing product", "Server error"} }
    \cup { [kind |-> "status", data |-> [message |-> "Bad gateway"]],
           [kind |-> "network"], [kind |-> "json"] }

\* the message of the Error that reaches the catch of handleGenerate
thrownMessage(snap, s) ==
  CASE s.kind = "network" -> "Failed to fetch"
    [] s.kind = "json"    -> "Unexpected end of JSON input"
    [] s.kind = "status"  ->
         IF snap = "picker"
         THEN IF "error" \in DOMAIN s.data THEN s.data.error ELSE "Server error"
         ELSE IF "error" \in DOMAIN s.data /\ s.data.error /= "" THEN s.data.error
              ELSE "Server error"

\* setError(...) of the catch
errorOf(snap, s) ==
  IF snap = "picker" THEN thrownMessage(snap, s)
  ELSE IF thrownMessage(snap, s) /= "" THEN thrownMessage(snap, s) ELSE "Failed"

PageInit ==
  /\ pageSnap \in {"picker", "plain"}
  /\ pageProduct \in PageProducts
  /\ pageResult = NoResult /\ pageSelected = ""
  /\ imgIndex = 0 /\ loadErrors = 0
  /\ loading = FALSE /\ pageError = NoError
  /\ requests = 0 /\ inFlight = {} /\ resultOf = 0
  /\ snapshot = "part" /\ env = NoEnv /\ HandlerIdle
  /\ pureFn = "" /\ pureIn = <<>> /\ pureOut = <<>>

\* handleGenerate, up to the request: the form is submitted (the button is
\* enabled), loading is set, error, result and selection are cleared, and
\* the request is sent
HandleGenerate ==
  /\ ~submitDisabled(loading)
  /\ requests < MaxRequests
  /\ loading' = TRUE
  /\ pageError' = NoError
  /\ pageResult' = NoResult
  /\ pageSelected' = ""
  /\ requests' = requests + 1
  /\ inFlight' = inFlight \cup {requests + 1}
  /\ resultOf' = 0
  /\ UNCHANGED <<pageSnap, pageProduct>>
  /\ Rerender
  /\ UNCHANGED <<handlerVars, pureVars>>

\* handleGenerate, after the request: a success response becomes the result,
\* and finally loading is cleared
SetResult ==
  /\ \E r \in inFlight, s \in Settlements :
       /\ s.kind = "ok"
       /\ pageResult' = s.data
       /\ resultOf' = r
       /\ inFlight' = inFlight \ {r}
  /\ loading' = FALSE
  /\ UNCHANGED <<pageSnap, pageProduct, pageSelected, pageError, requests>>
  /\ Rerender
  /\ UNCHANGED <<handlerVars, pureVars>>

\* handleGenerate, after the request: a non-OK status, a rejected fetch or a
\* body that is not JSON ends in the catch, and finally loading is cleared
SetError ==
  /\ \E r \in inFlight, s \in Settlements :
       /\ s.kind /= "ok"
       /\ pageError' = <<errorOf(pageSnap, s)>>
       /\ inFlight' = inFlight \ {r}
  /\ loading' = FALSE
  /\ UNCHANGED <<pageSnap, pageProduct, pageResult, pageSelected, requests, resultOf>>
  /\ Rerender
  /\ UNCHANGED <<handlerVars, pureVars>>

\* a click on a photo of the picker
SelectImage ==
  /\ pageSnap = "picker"
  /\ \E i \in 1..Len(pageResult.photoUrls) :
       /\ pageResult.photoUrls[i] /= pageSelected
       /\ pageSelected' = pageResult.photoUrls[i]
  /\ UNCHANGED <<pageSnap, pageProduct, pageResult, requestVars>>
  /\ Rerender
  /\ UNCHANGED <<handlerVars, pureVars>>

\* onChange of the product input
SetProduct ==
  /\ pageProduct' \in PageProducts \ {pageProduct}
  /\ UNCHANGED <<pageSnap, pageResult, pageSelected, requestVars>>
  /\ Rerender
  /\ UNCHANGED <<handlerVars, pureVars>>

\* onError of the poster
ImgError ==
  /\ loadErrors < MaxLoadErrors
  /\ imgIndex' = handleImgError(imgIndex, Len(PageFallbacks))
  /\ loadErrors' = loadErrors + 1
  /\ UNCHANGED <<pageSnap, pageProduct, pageResult, pageSelected, requestVars>>
  /\ UNCHANGED <<handlerVars, pureVars>>

PageNext ==
  \/ HandleGenerate
  \/ SetResult
  \/ SetError
  \/ SelectImage
  \/ SetProduct
  \/ ImgError

PageSpec == PageInit /\ [][PageNext]_vars

(***************************************************************************)
(* Properties                                                              *)
(***************************************************************************)
InSeq(x, s) == \E i \in 1..Len(s) : s[i] = x

\* a success response has been sent
Answered == pc = "done" /\ resp.status = 200

\* composeFallbackCopy(brief) of the handler that serves the request
ComposedFor(body) ==
  IF snapshot = "part" THEN Composed[briefOf(body)] ELSE ComposedR[briefOf(body)]

\* the text providers the environment enables
OpenAIConfigured == HAS_OPENAI(env)
GroqConfigured == HAS_GROQ(env)
OllamaConfigured == ~isVercel(env) /\ PROVIDER(env) = "ollama"

TextCalls == {"openai.chat", "groq", "ollama"}
rank(call) ==
  CASE call = "openai.chat" -> 1
    [] call = "groq"        -> 2
    [] call = "ollama"      -> 3
    [] OTHER                -> 0

\* C1 (fallback completeness): when every text provider is unconfigured or
\* has failed (transport error, non-success status, empty or unparseable
\* content), the response carries composeFallbackCopy(brief) field for
\* field, demo is true and the provider is "demo".
FallbackCompleteness ==
  (Answered /\ onlyFailures)
    => /\ resp.copy = ComposedFor(req)
       /\ resp.demo = TRUE
       /\ resp.provider = "demo"

\* C2 (product mention): the tagline of every success response contains the
\* product of the brief, whatever its number of words, ignoring case.
ProductMention ==
  Answered => includes(toLowerCase(resp.copy.tagline), toLowerCase(req.product))

\* C3 (hashtags): in every success response copy.hashtags has 1 to 5
\* entries, pairwise distinct, each starting with exactly one "#".
HashtagInvariant ==
  Answered =>
    LET tags == resp.copy.hashtags
    IN /\ Len(tags) \in 1..5
       /\ \A i, j \in 1..Len(tags) : tags[i] = tags[j] => i = j
       /\ \A i \in 1..Len(tags) : CharAt(tags[i], 1) = "#" /\ CharAt(tags[i], 2) /= "#"

CompleteCopy(c) ==
  /\ c.tagline /= "" /\ c.caption /= "" /\ c.shortDescription /= ""
  /\ Len(c.hashtags) >= 1

\* C5 (error non-propagation): a request with a product is answered with a
\* success response carrying a complete copy, whatever the text providers and
\* the image providers do; it is never answered with 500.
ErrorNonPropagation ==
  (pc = "done" /\ req.parses /\ req.product /= "")
    => resp.status = 200 /\ CompleteCopy(resp.copy)

\* every text provider and the photo search were contacted and all of them
\* failed, and the request was answered
AllFailedAnswered ==
  /\ Answered /\ onlyFailures
  /\ InSeq("openai.chat", calls) /\ InSeq("groq", calls) /\ InSeq("pexels", calls)
  /\ resp.photoUrls = <<>>

\* C6 (missing product): a request without a product is answered with 400
\* and an error message before anything else happens: no copy is composed
\* and no provider, text or image, is contacted.
MissingProductRejected ==
  (pc /= "idle" /\ req.parses /\ req.product = "")
    => /\ pc = "done"
       /\ resp = BadRequest
       /\ calls = <<>>
       /\ copy = NoCopy
       /\ rejected = {} /\ ~accepted

\* a request without a product has been answered
MissingProductAnswered ==
  pc = "done" /\ req.parses /\ req.product = "" /\ resp.status = 400

\* C7 (gate-driven fallback): a rejected candidate is never the copy of the
\* response; when no candidate has passed, every configured provider has
\* been attempted, the response carries the composed baseline and is marked
\* as fallback.
GateDrivenFallback ==
  Answered =>
    /\ resp.copy \notin rejected
    /\ ~accepted =>
         /\ OpenAIConfigured => InSeq("openai.chat", calls)
         /\ GroqConfigured => InSeq("groq", calls)
         /\ OllamaConfigured => InSeq("ollama", calls)
         /\ resp.copy = ComposedFor(req)
         /\ resp.demo = TRUE

\* C8 (provider ordering and short-circuit): a text provider is contacted
\* only while no candidate has passed the quality check, and never before a
\* provider of higher priority that is contacted in the same request.
ProviderOrdering ==
  [][ (Len(calls') = Len(calls) + 1 /\ calls'[Len(calls')] \in TextCalls)
        => /\ ~accepted
           /\ \A i \in 1..Len(calls) : rank(calls[i]) <= rank(calls'[Len(calls')]) ]_vars

\* Groq's candidate passed after OpenAI was contacted, and the enabled Ollama
\* was not contacted
GroqShortCircuits ==
  /\ Answered /\ accepted /\ resp.provider = "groq"
  /\ InSeq("openai.chat", calls)
  /\ OllamaConfigured /\ ~InSeq("ollama", calls)

\* C9 (fallback flag): in a success response demo is true exactly when the
\* copy is the composed one because no candidate passed, and exactly when
\* the provider is "demo"; a real provider with demo false never carries the
\* composed copy.
FallbackFlagConsistency ==
  Answered =>
    /\ resp.demo <=> (~accepted /\ resp.copy = ComposedFor(req))
    /\ resp.demo <=> resp.provider = "demo"
    /\ ~(resp.provider /= "demo" /\ ~resp.demo /\ resp.copy = ComposedFor(req))

\* C10 (hosted gate): with VERCEL set, Ollama is never contacted.
HostedGate == isVercel(env) => ~InSeq("ollama", calls)

\* hosted, with Ollama selected and no candidate from the cloud providers
HostedOllamaSelected ==
  /\ Answered /\ isVercel(env) /\ PROVIDER(env) = "ollama"
  /\ ~accepted /\ resp.demo = TRUE

\* the gate has been applied on its own
Gated == pureFn \in {"looksGeneric", "looksGenericR"}

\* the tagline or the caption of copy c contains string str, ignoring case
Mentions(c, str) ==
  \/ includes(toLowerCase(c.tagline), toLowerCase(str))
  \/ includes(toLowerCase(c.caption), toLowerCase(str))

\* C11 (gate correctness): looksGeneric rejects every copy whose tagline and
\* caption do not contain the product, ignoring case, whatever the category,
\* the benefit and the other fields are.
GateRejectsUnmentioned ==
  (Gated /\ ~Mentions(pureIn.copy, pureIn.product)) => pureOut = TRUE

\* the number of words of a string
WordCount(str) == Len(filterNonEmpty(splitWs(str)))

\* the copy starts like the canned default built from product p
Canned(c, p) ==
  \/ startsWith(c.tagline, "Meet " \o p)
  \/ startsWith(c.caption, "Say hello to " \o p)

\* the copy names the product, is long enough and is not the canned default
Presentable(c, p) ==
  /\ Mentions(c, p)
  /\ WordCount(c.tagline) >= 2 /\ WordCount(c.caption) >= 4
  /\ ~Canned(c, p)

\* C12 (grounding rule): the gate of part_001 rejects a presentable copy for
\* lack of grounding only when the category and the benefit are both
\* non-empty and neither occurs in the tagline or the caption; when the
\* category or the benefit is empty a presentable copy is accepted.
GroundingRule ==
  ( /\ pureFn = "looksGeneric"
    /\ Presentable(pureIn.copy, pureIn.product)
    /\ \/ pureIn.category = ""
       \/ pureIn.keyBenefit = ""
       \/ Mentions(pureIn.copy, pureIn.category)
       \/ Mentions(pureIn.copy, pureIn.keyBenefit) )
    => pureOut = FALSE

\* the rules of the gate other than the canned-template rule let the input pass
OtherRulesPass ==
  /\ WordCount(pureIn.copy.tagline) >= 2 /\ WordCount(pureIn.copy.caption) >= 4
  /\ pureFn = "looksGeneric" =>
       /\ Mentions(pureIn.copy, pureIn.product)
       /\ \/ pureIn.category /= "" /\ Mentions(pureIn.copy, pureIn.category)
          \/ pureIn.keyBenefit /= "" /\ Mentions(pureIn.copy, pureIn.keyBenefit)

\* the copy is the default the normalizer of the same file builds
IsNormalizerDefault ==
  \/ pureFn = "looksGeneric" /\ pureIn.copy = fallbackCopy(pureIn.product)
  \/ pureFn = "looksGenericR" /\ pureIn.copy = MOCK_COPY(pureIn.product)

\* C13 (canned-template rule): the gate rejects every copy whose tagline
\* starts with "Meet <product>" or whose caption starts with
\* "Say hello to <product>"; on a copy without these openings the rule does
\* not fire (a copy the other rules let pass is accepted); the defaults of
\* the normalizer are rejected.
CannedTemplateRule ==
  Gated =>
    /\ Canned(pureIn.copy, pureIn.product) => pureOut = TRUE
    /\ (~Canned(pureIn.copy, pureIn.product) /\ OtherRulesPass) => pureOut = FALSE
    /\ IsNormalizerDefault => pureOut = TRUE

\* the default copy for "Widget", which only the canned-template rule of
\* route.ts turns down, has been rejected
WidgetDefaultRejected ==
  /\ pureFn = "looksGenericR"
  /\ pureIn.product = "Widget" /\ pureIn.copy = MOCK_COPY("Widget")
  /\ WordCount(pureIn.copy.tagline) >= 2 /\ WordCount(pureIn.copy.caption) >= 4
  /\ pureOut = TRUE

\* C14 (image request flag): a request is answered after a stock-photo
\* search exactly when images are requested (includeImage is not false) and
\* a key is there to search with; when includeImage is false no search is
\* made and photoUrls is empty, on every path of the handler.
ImageRequestFlag ==
  Answered =>
    /\ InSeq("pexels", calls) <=> (wantsImage(req) /\ PEXELS_KEY(env))
    /\ ~wantsImage(req) => resp.photoUrls = <<>>

\* the number of calls to a service in this request
CountCalls(name) == Cardinality({ i \in 1..Len(calls) : calls[i] = name })

\* C15 (image resolver without photos): when no stock-photo key is
\* configured, or when every stock-photo search throws or is answered with a
\* non-success status, a request with a product is answered with a success
\* response whose photoUrls is empty.
NoPhotosStillSucceeds ==
  ( /\ pc = "done" /\ req.parses /\ req.product /= ""
    /\ ~PEXELS_KEY(env) \/ photosFailed )
    => resp.status = 200 /\ resp.photoUrls = <<>>

\* every query variant was searched, every search failed, and the request
\* was answered
EverySearchFailed ==
  /\ Answered /\ PEXELS_KEY(env) /\ photosFailed
  /\ CountCalls("pexels") = 3
  /\ resp.photoUrls = <<>>

(***************************************************************************)
(* The poster of the page                                                  *)
(***************************************************************************)
\* whether the placeholder of a product carries the text
Labelled ==
  [p \in PageProducts |->
    [ name |-> includes(PageSources[p].base, encodeURIComponent(p)),
      label |-> includes(PageSources[p].base,
                         encodeURIComponent(Sub(orElse(p, "Your product"), 1, LabelChars))) ]] @@ <<>>

\* the class of a source of the list: 1 the image of the provider, 2 a stock
\* photo of the response, 3 a keyword photo endpoint, 4 the local placeholder
sourceClass(url) ==
  IF url = PageSources[pageProduct].base THEN 4
  ELSE IF url = pageResult.imageDataUrl THEN 1
  ELSE IF InSeq(url, pageResult.photoUrls) THEN 2
  ELSE 3

\* the classes never decrease along the sequence
ClassesAscend(seq) ==
  \A i \in 1..Len(seq) : \A j \in i..Len(seq) : sourceClass(seq[i]) <= sourceClass(seq[j])

\* the index stays inside the list, each load error since the last reset has
\* advanced it by one up to the last entry, and the last entry is the local
\* placeholder
CascadeAdvances ==
  /\ imgIndex <= Len(PageFallbacks) - 1
  /\ imgIndex = (IF loadErrors < Len(PageFallbacks) - 1 THEN loadErrors
                 ELSE Len(PageFallbacks) - 1)
  /\ posterSrc = PageFallbacks[imgIndex + 1]
  /\ PageFallbacks[Len(PageFallbacks)] = PageSources[pageProduct].base
  /\ (loadErrors >= Len(PageFallbacks) - 1 => posterSrc = PageSources[pageProduct].base)

EnforcementIdempotent ==
  (pureFn \in Enforcements /\ Len(pureOut) = 2) => pureOut[2] = pureOut[1]

(***************************************************************************)
(* The photo loop                                                          *)
(***************************************************************************)
\* C18: when the photo loop has run for an answered request, the returned
\* list has at most PhotoLimit entries, all distinct, and it has fewer than
\* PhotoLimit entries only if every query variant has been searched.
ImageAccumulation ==
  (Answered /\ CountCalls("pexels") > 0) =>
     /\ Len(resp.photoUrls) <= PhotoLimit
     /\ \A i, j \in 1..Len(resp.photoUrls) : resp.photoUrls[i] = resp.photoUrls[j] => i = j
     /\ (Len(resp.photoUrls) < PhotoLimit => qi >= Len(ImgQueries[req]))

(***************************************************************************)
(* The lengths of the composed copy                                        *)
(***************************************************************************)
\* the words of a text, in order
WordsOf(str) == filterNonEmpty(splitWs(str))

\* C19: for every brief the Composer of either file returns a tagline of at
\* most 8 words and a caption of at most 26 words, and
\* what clampWords returns is the first words of its text, whole, separated
\* by single spaces.
ComposerLengthBounds ==
  /\ pureFn \in {"composeFallbackCopy", "composeFallbackCopyR"} =>
       /\ WordCount(pureOut.tagline) <= 8
       /\ WordCount(pureOut.caption) <= 26
  /\ pureFn \in {"clampWords", "clampWordsR"} =>
       /\ Len(WordsOf(pureOut.text)) <= pureOut.max
       /\ WordsOf(pureOut.text) = slice0(WordsOf(pureIn.keyBenefit), Len(WordsOf(pureOut.text)))
       /\ pureOut.text = join(WordsOf(pureOut.text), " ")

\* a Composer was called with the long key benefit and its tagline was cut
\* to exactly TaglineWords words
ComposedTaglineCut ==
  /\ pureFn = "composeFallbackCopy"
  /\ pureIn.keyBenefit = LongBenefit
  /\ WordCount(pureIn.product) > 3
  /\ WordCount(pureOut.tagline) = TaglineWords

(***************************************************************************)
(* The calls of one request                                                *)
(***************************************************************************)
\* the calls made so far stay within one chat call to OpenAI, three prompt
\* variants for Groq (one call each), one call to Ollama and one search per
\* query variant, three at most
CallsBounded ==
  /\ CountCalls("openai.chat") <= 1
  /\ CountCalls("groq") <= 3
  /\ CountCalls("groq") <= gi
  /\ CountCalls("ollama") <= 1
  /\ CountCalls("pexels") <= 3

\* once a content of Groq has been taken no further variant is tried
GroqStops == providerUsed = "groq" => CountCalls("groq")' = CountCalls("groq")

\* C20: within one request no call is made more often than its bound (one
\* OpenAI chat call, three Groq variants, one Ollama call, three photo
\* searches), Groq stops at the first content it keeps, and the handler
\* reaches a response.
NoRetryBoundedWork ==
  /\ []CallsBounded
  /\ [][GroqStops]_vars
  /\ <>(pc = "done")

\* a request answered after every provider was called as often as allowed
EveryCallMade ==
  /\ pc = "done"
  /\ CountCalls("openai.chat") = 1
  /\ CountCalls("groq") = 3
  /\ CountCalls("ollama") = 1
  /\ CountCalls("pexels") = 3

(***************************************************************************)
(* The Normalizer                                                          *)
(***************************************************************************)
\* the static default record of the coerceCopy that was called
DefaultOf(fn, p) == IF fn = "coerceCopy" THEN fallbackCopy(p) ELSE MOCK_COPY(p)

\* the value is a string with text in it
GivesText(v) == v.t = "str" /\ trim(v.s) /= ""

\* the object the raw value is read as: the object itself, the object of the
\* "Key: value" lines of a string, or the object without keys
ObjectOf(raw) ==
  IF raw.t = "obj" THEN raw.o
  ELSE IF raw.t = "str" /\ parseKeyedLines(raw.s) /= JNull
  THEN parseKeyedLines(raw.s).o
  ELSE <<>>

\* none of the keys of the object holds text
Unsupplied(o, keys) == \A k \in keys : k \notin DOMAIN o \/ ~GivesText(o[k])

\* C21: coerceCopy returns a copy whose tagline, caption and
\* shortDescription are non-empty and whose hashtags have 1 to 5 entries,
\* and a field the input does not supply as text is the field of the static
\* default record built from the product.
NormalizerTotal ==
  pureFn \in {"coerceCopy", "coerceCopyR"} =>
    LET o == ObjectOf(pureIn.raw)
        d == DefaultOf(pureFn, pureIn.product)
    IN /\ pureOut.tagline /= "" /\ pureOut.caption /= "" /\ pureOut.shortDescription /= ""
       /\ Len(pureOut.hashtags) \in 1..5
       /\ Unsupplied(o, {"tagline", "title", "headline"}) => pureOut.tagline = d.tagline
       /\ Unsupplied(o, {"caption", "subtitle", "socialCaption"}) => pureOut.caption = d.caption
       /\ Unsupplied(o, {"shortDescription", "short_description", "description", "blurb"})
            => pureOut.shortDescription = d.shortDescription
       /\ ("hashtags" \notin DOMAIN o \/ o["hashtags"].t \notin {"str", "arr"})
            => pureOut.hashtags = d.hashtags

\* coerceCopy was given an object with a tagline only and filled the rest
\* from the default record
OnlyTaglineSupplied ==
  /\ pureFn = "coerceCopy"
  /\ pureIn.raw = JObj([ tagline |-> JStr("Fresh start") ])
  /\ pureIn.product /= ""
  /\ pureOut.tagline = "Fresh start"
  /\ pureOut.caption = fallbackCopy(pureIn.product).caption

\* the text consists of '#' characters only (the empty text too)
AllHashes(str) == \A i \in 1..Len(str) : CharAt(str, i) = "#"

\* the entries of the hashtags the raw value gives, in order, without the
\* ones that are dropped: of an array the non-empty strings, of a delimited
\* string (of an object or of a "Hashtags:" line) the pieces that are not
\* made of '#' only
KeptEntries(raw) ==
  LET o == ObjectOf(raw)
      pieces(str) == SelectSeq(splitOn(str, "commaSpace"), LAMBDA x : ~AllHashes(x))
  IN IF raw.t = "str"
     THEN pieces(getKeyed(raw.s, "hashtag"))
     ELSE IF "hashtags" \notin DOMAIN o THEN <<>>
     ELSE IF o["hashtags"].t = "str" THEN pieces(o["hashtags"].s)
     ELSE IF o["hashtags"].t = "arr"
     THEN LET texts == SelectSeq(o["hashtags"].a, LAMBDA v : v.t = "str" /\ v.s /= "")
          IN [ i \in 1..Len(texts) |-> texts[i].s ]
     ELSE <<>>

\* tag is entry with its leading '#' characters replaced by one '#'
OneHashOf(entry, tag) ==
  /\ Len(tag) >= 1 /\ CharAt(tag, 1) = "#"
  /\ (Len(tag) >= 2 => CharAt(tag, 2) /= "#")
  /\ Len(tag) - 1 <= Len(entry)
  /\ Sub(entry, Len(entry) - Len(tag) + 2, Len(entry)) = Tail(tag)
  /\ AllHashes(Sub(entry, 1, Len(entry) - Len(tag) + 1))

\* C22: when the raw value gives hashtags, as an array or as one delimited
\* string, the hashtags of coerceCopy are the kept entries in their order,
\* each with its leading '#' characters replaced by exactly one '#', cut to
\* 5 entries (an array entry made of '#' only is kept and becomes "#").
HashtagNormalization ==
  (pureFn \in {"coerceCopy", "coerceCopyR"} /\ Len(KeptEntries(pureIn.raw)) > 0) =>
    LET kept == KeptEntries(pureIn.raw)
    IN /\ Len(pureOut.hashtags) = (IF Len(kept) < 5 THEN Len(kept) ELSE 5)
       /\ \A i \in 1..Len(pureOut.hashtags) : OneHashOf(kept[i], pureOut.hashtags[i])

\* coerceCopy was given an array with doubled '#', a number, an empty text
\* and more than five texts
HashtagArrayNormalized ==
  /\ pureFn = "coerceCopy"
  /\ pureIn.raw.t = "obj"
  /\ "hashtags" \in DOMAIN pureIn.raw.o
  /\ pureIn.raw.o["hashtags"].t = "arr"
  /\ Len(pureIn.raw.o["hashtags"].a) > 5
  /\ pureOut.hashtags = <<"#grab", "#enjoy", "#", "# #now", "#e">>

(***************************************************************************)
(* The hashtags of the Composer                                            *)
(***************************************************************************)
\* C23: the hashtags of composeFallbackCopy are, in this order and with
\* duplicates collapsed, the tag of the product's first word, the category
\* tag, one tag for the benefit, "#new" and "#daily", cut to 5; so they
\* contain the first-word tag and the category tag.
ComposerHashtags ==
  pureFn \in {"composeFallbackCopy", "composeFallbackCopyR"} =>
    LET tags  == pureOut.hashtags
        first == "#" \o firstWordTag(pureIn.product)
        cat   == toLowerCase(categoryTag(pureIn.category))
    IN /\ \E b \in {tags[i] : i \in 1..Len(tags)} :
            tags = slice0(uniq(<<first, cat, b, "#new", "#daily">>), 5)
       /\ InSeq(first, tags)
       /\ InSeq(cat, tags)

(***************************************************************************)
(* The length rule of the gate                                             *)
(***************************************************************************)
GateVerdicts == {"looksGeneric after enforcement", "looksGenericR after enforcement"}

\* C24: a copy that, after coerceCopy and the enforcement steps, has a
\* tagline of fewer than 2 words or a caption of fewer than 4 words is
\* rejected by looksGeneric.
GateLengthRule ==
  (pureFn \in GateVerdicts
     /\ (WordCount(pureOut.copy.tagline) < 2 \/ WordCount(pureOut.copy.caption) < 4))
  => pureOut.generic

\* a copy that names product and category and fails on its length alone
\* was rejected
ShortCopyRejected ==
  /\ pureFn = "looksGeneric after enforcement"
  /\ pureIn.product = "Hazel" /\ pureIn.category = "Beverage"
  /\ pureOut.copy.tagline = "Hazel-beverage"
  /\ WordCount(pureOut.copy.caption) = 3
  /\ pureOut.generic

(***************************************************************************)
(* The seed                                                                *)
(***************************************************************************)
\* 32-bit FNV-1a on four bytes, least significant first: the accumulator
\* starts at 2166136261 = 0x811C9DC5, a unit is XORed into it and the result
\* is multiplied by 16777619 = 0x01000193 modulo 2^32
XorByte(a, b) ==
  LET bit(x, k) == (x \div (2 ^ k)) % 2
      sum[k \in 0..8] == IF k = 8 THEN 0
                         ELSE ((bit(a, k) + bit(b, k)) % 2) * (2 ^ k) + sum[k + 1]
  IN sum[0]

FnvStep(acc, unit) ==
  LET a0 == XorByte(acc[1], unit)
      r0 == a0 * 147
      r1 == acc[2] * 147 + a0 + (r0 \div 256)
      r2 == acc[3] * 147 + acc[2] + (r1 \div 256)
      r3 == acc[4] * 147 + acc[3] + a0 + (r2 \div 256)
  IN << r0 % 256, r1 % 256, r2 % 256, r3 % 256 >>

RECURSIVE FnvFold(_, _, _, _)
\* the units lo..hi of the text folded into the accumulator, in order
FnvFold(str, lo, hi, acc) ==
  IF lo > hi THEN acc
  ELSE IF lo = hi THEN With(acc, LAMBDA v : FnvStep(v, charCodeAt(str, lo)))
  ELSE With(FnvFold(str, lo, (lo + hi) \div 2, acc), LAMBDA v :
         FnvFold(str, ((lo + hi) \div 2) + 1, hi, v))

Fnv1a(str) == FnvFold(str, 1, Len(str), << 197, 157, 28, 129 >>)

\* C25: hashString returns the 32-bit FNV-1a value of its text, a number
\* in 0 .. 2^32 - 1 (two halves in 0 .. 2^16 - 1), for the empty text too.
SeedIsFnv1a ==
  pureFn = "hashString" =>
    LET ref == Fnv1a(pureIn.text)
    IN /\ pureOut[1] \in 0..65535
       /\ pureOut[2] \in 0..65535
       /\ pureOut[1] = ref[4] * 256 + ref[3]
       /\ pureOut[2] = ref[2] * 256 + ref[1]

\* hashString("foobar") = 0xBF9CF968
FoobarHashed ==
  /\ pureFn = "hashString"
  /\ pureIn.text = "foobar"
  /\ pureOut = << 49052, 63848 >>

\* (seed + salt) mod n, computed from the four bytes of the seed
IndexOf(seed, salt, n) ==
  LET b3 == seed[1] \div 256
      b2 == seed[1] % 256
      b1 == seed[2] \div 256
      b0 == seed[2] % 256
      m3 == b3 % n
      m2 == (m3 * 256 + b2) % n
      m1 == (m2 * 256 + b1) % n
  IN (m1 * 256 + b0 + salt) % n

\* C26: pick returns list[(seed + salt) mod listLength], an element of the
\* list, and the template index is seed mod the number of templates, in
\* 0 .. 2, for every seed up to 2^32 - 1.
SeededSelection ==
  /\ pureFn = "pick" =>
       /\ IndexOf(pureIn.seed, pureIn.salt, Len(pureIn.list)) \in 0..(Len(pureIn.list) - 1)
       /\ pureOut = pureIn.list[IndexOf(pureIn.seed, pureIn.salt, Len(pureIn.list)) + 1]
  /\ pureFn = "template" =>
       /\ pureOut \in 0..2
       /\ pureOut = IndexOf(pureIn.seed, 0, 3)

\* pick was called with the largest seed, 2^32 - 1, and salt 7 on the eight
\* verbs: (4294967295 + 7) mod 8 = 6
LargestSeedPicked ==
  /\ pureFn = "pick"
  /\ pureIn.seed = <<65535, 65535>> /\ pureIn.salt = 7 /\ pureIn.list = verbs
  /\ pureOut = "Unwrap"

\* C27: for every brief with a non-empty product the Composer's own copy
\* passes the Quality Gate: looksGeneric of the composed copy is false.
ComposerPassesGate ==
  pureFn \in {"looksGeneric of composeFallbackCopy", "looksGenericR of composeFallbackCopyR"}
    /\ pureIn.product /= ""
  => ~pureOut.generic

\* the first text provider the handler has called ("demo" when it called none)
FirstTextProvider ==
  LET at == { i \in 1..Len(calls) : calls[i] \in TextCalls }
  IN IF at = {} THEN "demo"
     ELSE LET first == calls[CHOOSE i \in at : \A j \in at : i <= j]
          IN IF first = "openai.chat" THEN "openai" ELSE first

\* C28: under every configuration the willUse of the diag endpoint is the
\* first text provider the generate handler of route.ts attempts for a
\* request it answers, and "demo" exactly when it attempts none.
DiagAgreement ==
  snapshot = "route" /\ Answered => diagGET(env).willUse = FirstTextProvider

\* the tags ensureHashtags may add for a product and a category
AddedTags(fn, product, category) ==
  IF fn = "ensureHashtags of coerceCopy"
  THEN { "#" \o slice0(slugParts(product), 2)[i] : i \in 1..Len(slice0(slugParts(product), 2)) }
         \cup {categoryTag(category)}
  ELSE {"#" \o firstWordTagR(product), categoryTag(category)}

\* the distinct entries of a list, in the order of their first occurrence
Distinct(s) ==
  LET firsts == { i \in 1..Len(s) : \A j \in 1..(i - 1) : s[j] /= s[i] }
      nth[k \in 0..Len(s)] ==
        IF k = 0 THEN 0 ELSE CHOOSE i \in firsts : i > nth[k - 1] /\ \A j \in firsts : j > nth[k - 1] => i <= j
  IN [ k \in 1..Cardinality(firsts) |-> s[nth[k]] ]

\* C29: ensureHashtags keeps the existing tags: its result starts with the
\* first min(5, n) distinct tags of the input in their order, every later
\* position holds a product or category tag, and an input of 5 distinct tags
\* comes back unchanged.
HashtagsFrame ==
  pureFn \in {"ensureHashtags of coerceCopy", "ensureHashtagsR of coerceCopyR"} =>
    LET own == Distinct(pureOut.before)
        k   == IF Len(own) < 5 THEN Len(own) ELSE 5
    IN /\ Len(pureOut.after) >= k
       /\ \A i \in 1..k : pureOut.after[i] = own[i]
       /\ \A i \in (k + 1)..Len(pureOut.after) :
            pureOut.after[i] \in AddedTags(pureFn, pureIn.product, pureIn.category)
       /\ Len(own) >= 5 => pureOut.after = pureOut.before

\* a coerced copy whose third tag repeats its first went through
\* ensureHashtags of part_001, which kept the two distinct tags in front and
\* added tags behind them
RepeatedTagKept ==
  /\ pureFn = "ensureHashtags of coerceCopy"
  /\ Len(pureOut.before) = 4 /\ pureOut.before[3] = pureOut.before[1]
  /\ Len(pureOut.after) > 3
  /\ pureOut.after[1] = "#sip" /\ pureOut.after[2] = "#hazel" /\ pureOut.after[3] = "#lift"

\* a coerced copy with five distinct tags went through ensureHashtags
FiveTagsUnchanged ==
  /\ pureFn = "ensureHashtags of coerceCopy"
  /\ pureOut.before = <<"#a", "#b", "#c", "#d", "#e">>
  /\ pureOut.after = pureOut.before

\* C30: while a request is in flight loading is true and result, error and
\* selection are cleared; once it has settled loading is false and exactly
\* one of result and error is set; no second request is sent while loading,
\* so a result on the page answers the most recently submitted request.
PageRequestState ==
  /\ loading <=> inFlight /= {}
  /\ loading => /\ pageResult = NoResult /\ pageError = NoError /\ pageSelected = ""
                /\ inFlight = {requests}
  /\ (~loading /\ requests > 0) => ((pageResult /= NoResult) <=> (pageError = NoError))
  /\ pageResult /= NoResult => resultOf = requests

\* the second request has settled with a success while the first had failed:
\* the page shows the second request's result and no error
SecondResultShown ==
  /\ requests = 2 /\ ~loading /\ inFlight = {}
  /\ pageResult /= NoResult /\ resultOf = 2 /\ pageError = NoError

====
